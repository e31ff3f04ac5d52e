# Llavon IME for Windows: a verification project in TLA+

The input method has two processes.  The *frontend* is a text service loaded into
every application by TSF (Windows' Text Services Framework): it turns Bopomofo keys
into a composition and asks for its conversion.  The *service* holds the language
model, answers predictions over a pipe, learns from what is committed, boosts the
GPU's clocks while it is used, trains LoRA adapters, and shows the candidate window
and the settings.  A third program, the *debugger*, collects logs.

Everything here is translated from the source; paths below are relative to `src/`.

## 1. Inventory

| Component | Source | State | Operations | What makes it correct |
|---|---|---|---|---|
| Composition buffer | `frontend/src/core/buffer.hpp`, `bopomofo.hpp` | entries (identity, version, reading, text, candidates), caret, revision | type, erase, move, choose, merge a conversion, freeze | a conversion lands only on the reading it was computed for |
| Composition controller | `frontend/src/core/composition_controller.cpp` | the open composition, its candidate list and lock, requests sent | keys, `on_conversion`, `backend_lost`, `seal`, `commit`, `discard`, `finish_all_locally` | the document follows the buffer; no result is applied to the wrong text or dropped |
| Sealed text | `frontend/src/core/sealed_text.cpp` | segments left in documents before their conversion was done | add, context, conversion, local finish, write, erase, release | each becomes final exactly once, in place, never over the user's changes |
| Text service | `frontend/src/tsf/textService.cpp` | edit queue of each document, the one TSF composition, sealed ranges, the key tested last | keys, request, run and drop edits, termination by the host, closing a document, deactivation | edits run in order, for the composition they were meant for |
| Key router | `frontend/src/tsf/key_router.cpp` | whether Shift went down alone, the backtick's prefix | what a key means in a context | what is shown is what a key does |
| Candidate list | `frontend/src/tsf/candidateListUI.hpp`, `candidateUi*.cpp` | page, selection, columns; the TSF element; the pipe | turn, select, expand, show, dismiss, host calls | the list on the screen is the open one |
| Candidate window | `service/src/service/candidate_pipe_server.hpp`, `service/src/candidate` | connections, the one that presented last, one slot for a snapshot, the window | present, hide, end of a client | a closed list goes, an open one stays |
| Engine worker | `frontend/src/engine/engine_worker.cpp` | queue of jobs, UI copy of mode and connection, last commit | refresh, toggle, ready, prefill, predict, record, discard, destroy | each prediction answered once; mode and connection shown as they are; the worker stops |
| Pipe engine, dispatcher | `frontend/src/engine/impl/pipeEngine.hpp`, `frontend/src/system/ui_dispatcher.hpp` | the pipe, `aborted_`; tasks for the UI thread | connect, transfer, abort; post, drain, close | a transfer never outlives abort; tasks run in order, none after close |
| Pipe server | `service/src/service/prediction_pipe_server.hpp` | contexts by client, the core, jobs, commit tokens | ready, prefill, predict, record, discard, replace the core, stop | a context serves one client, of the current core |
| GPU lease and boost | `service/src/service/gpu_activity_lease.hpp`, `amd_gpu_*.cpp` | lease, timer, failures; a process with shared memory | activate, release, retry, replace | a raised clock is lowered again, whoever dies |
| Training data | `service/src/service/training_data_writer.cpp` | queue, staged commits, database, setting, counters | enqueue, discard, write, switch, set a password, reset, train | nothing taken back or erased is written; nothing is trained twice |
| LoRA training | `service/src/service/lora_training_manager.cpp`, `lora_process.cpp` | the operation, the trainer's process, files | train, download, install, export, cancel, clean up | no text stays on the disk; files named are there |
| Settings | `service/src/main.cpp`, `service/src/settings/settings_window.cpp` | core, active configuration, saved settings, the picker | prepare, apply, discard, change the device, quit | what is active is what is saved |
| Updates | `service/src/settings/update_*.cpp`, `service/src/service/winrt_http.cpp`, `major_update_notifier.cpp` | the page's buttons and rows, what was asked for, two threads, a transfer, `setup.exe` | show, check, install, cancel, notify | one press, one download, of what was named; the buttons come back; the end waits for nobody |
| Logger | `debugger/src/logger.cpp`, `bounded_mpmc_queue.hpp` | lock-free queue, events, count of drops | log, connect, write, stop | no message torn, doubled or left behind |
| Debugger | `debugger/src/debugger`, `ipc/include/llavon-ipc/pipe_listener.hpp` | pipe instances, client threads, the window | accept, read, show, close | what the window shows is true |

How they interact: a key comes in on the UI thread of the application; the text
service routes it to the controller; the controller changes its state at once,
queues edits for the document and calls the engine worker; the worker's thread
talks to the service and posts results back to the UI thread; the document grants
queued edits inside the request or at any later time.  The text service also writes
its candidate list to a second pipe, from which the service's UI thread draws it.
In the service every connection has a thread; those that touch the model post jobs
to one inference thread, those that record commits hand them to the writer's thread,
from whose database the settings window starts trainings.  The hard behaviours follow
from that: results out of step with the keys, edits granted late or never, text left
behind before its conversion is done, the host ending compositions by itself, a
service that ends and starts, one slot for the lists of many applications, jobs
queued behind a driver that does not answer, files and processes that outlive the
service, and memory shared without locks.  `PROJECT.json` lists them as hazards, each
at its line.

## 2. Modules

| Module | Models | Notes |
|---|---|---|
| `CompositionBuffer` | the buffer and its entries | operators only, no state |
| `Composition` | controller, tracker, sealed queue, edit queues and documents | extends `CompositionBuffer` |
| `CompositionProperties`, `CompositionProofs` | what is expected of it; three theorems | |
| `CompositionScreenProofs` | three more, of the screen and the documents | extends `CompositionProofs` |
| `Queues` | taking elements out of a queue | operators only |
| `ConversionBackend` | what the controller may expect of its backend | abstract specification |
| `EngineWorker` | worker, pipe engine and dispatcher, the service as environment | implements `ConversionBackend` |
| `EngineWorkerProperties`, `EngineWorkerProofs` | what is expected of it; five theorems | |
| `KeyRouter` | what a key means | operators only |
| `CandidateList` | pages, selection and what the service is told | operators only; instantiates `KeyRouter` |
| `CandidateUi` | text services, their pipes, the service and its UI thread | extends `CandidateList` |
| `CandidateProperties`, `CandidateProofs` | what is expected of it; four theorems | |
| `ClockLease` | what may happen to a borrowed clock | abstract specification |
| `GpuBoostWorker` | the boost's processes and the GPU | |
| `InferenceServer` | connections, inference thread, contexts, core, lease | extends `GpuBoostWorker`; implements `ClockLease` |
| `InferenceProperties`, `InferenceProofs` | what is expected of it; four theorems | |
| `TrainingDataWriter` | writer, database, runs, and the commands that feed them | |
| `TrainingDataProperties`, `TrainingDataProofs` | what is expected of it; four theorems | |
| `LoraTrainingManager` | operations on the worker thread, files, the trainer | |
| `ModelSettings` | the calls of the settings window and of `main` | extends `LoraTrainingManager` |
| `UpdatePage` | the page of the updates, its checker, installer and transfer, the notice | |
| `Settings` | the window with its pages, and the service's end | extends `ModelSettings`, `UpdatePage` |
| `ModelProperties`, `ModelProofs` | what is expected of them; four theorems | |
| `LogQueue` | the lock-free queue | |
| `Logger`, `Debugger` | the logger's threads; the debugger | each extends the one before |
| `LoggingProperties`, `LoggingProofs` | what is expected of all three; theorems | |
| `MC...` | the small instances TLC explores | one set of *uses* for each run |

`Composition` and `EngineWorker` meet in `ConversionBackend`.  `Composition` contains
its actions (`Answer`, `Supersede`, `Lose`) as the environment of the controller, and
`EngineWorker` is checked to implement it.  `Composition` lets results arrive in any
order, which the worker's first-in first-out queue does not use; it therefore covers
a worker that would send several requests at a time.  `CandidateUi` keeps of the
composition only whether it is open and whether results are held back, which is what
the list depends on.  The service's three models (`InferenceServer`,
`TrainingDataWriter`, `Settings`) share no state but a commit's token and the
replacement of the core, of which each has its own side.

### CompositionBuffer

A character is an abstract value that says where it comes from: a toneless reading,
the local table, the model, the user's choice, literally typed.  A reading is a
count of symbols and whether the tone completed it to one candidate, to several or
to none.  The parts the code distinguishes are kept: identity, version and the
request (`by`) whose conversion an entry shows; `chosen`; the revision, which counts
every change of the buffer.  `Merge` is the rule by which a result is applied
(`merge_conversion`); `StillSame` is its guard.  In the code the check of the
version is redundant with that of `chosen` for a choice, as choosing also counts as
an edit; both are modelled.

### Composition

The controller's state is one record (`Now`), and its methods are operators from
one such state to the next with the methods' names, so that the calls a method
makes are composed in the code's order.  Actions are calls from outside: a key, a
result, a lost backend, a granted session, the host ending a composition, closing
a document, deactivation.  `busy` is the call that is not over yet; the UI thread
finishes one before the next.

Some correspondences that need an argument:

- *Grants inside a handler.*  A document that grants at once runs the edit in the
  middle of the handler that requested it.  Here it runs right after the handler
  (`prompt` uses make it run before anything else).  The handlers request edits as
  their last act on the state the edit reads, and read nothing the edit changes
  afterwards; where `update()` looks again (`composition_controller.cpp:65`) it
  finds what the model's next step finds.
- *A session* drains its document's queue as one call; nothing else runs between
  its edits except what they request.
- *The screen.*  `text[d]` is what the document holds, as pieces labelled with the
  composition they come from.  The caret is at the end of the document except
  while Backspace erases.
- *TSF* is external: collapsing a range with the cookie of another document fails;
  ending the composition ourselves does not call `OnCompositionTerminated`; a
  document closed grants nothing any more.
- *Segments* are kept by epoch.  The code's queue is in the same order, as a
  segment is added when its composition ends and epochs grow.
- *`OpenCandidates`* lets the list open for any entry with candidates, which is
  more than the keys allow.
- *What the user changes* in sealed text is one replaced character.  What Backspace
  then erases from such a piece is not claimed.

### EngineWorker

The UI thread's calls, the tasks the UI thread takes, the worker thread's steps and
the service's are separate actions, so every interleaving of the threads at the
points where the code takes the lock, signals or waits is explored: `submit` tells
of what it replaced after leaving the lock; `Check`, `Waken` and `Probe` are the
pump's decision, its wait and its timeout; `Transfer`, `Complete` and `Fail` are a
request under way.  `ui` is `UiState`, changed only by tasks taken in order.

- The several transfers of one request are one step, and the two tasks a job posts
  are posted in one; the UI thread takes them one by one.  Draining a batch of tasks
  without a call between them is one of the behaviours of taking them one by one.
- Connecting may fail although the service is up: a pipe busy with another client
  refuses, and `CreateFileW` is not repeated.
- The launch throttle decides only when a service may appear; here it appears at
  any time.  A new one begins in Chinese mode.
- `ready` and the first prediction of a composition are only called in Chinese mode.
- Not modelled: another client toggling the service's mode; a transfer answered
  in part; a factory that throws.

### KeyRouter, CandidateList, CandidateUi

`Decisions` is the router's order of tests; the first that applies is the action.
`Transmitted` is what a call's commands do to the pipe, one after another (`Transmission`).
A candidate is its place in its list, so a presentation is a range of places with the
column that is numbered, and `Numbered` in the properties computes what the window
draws next to a digit independently of `Choice`, what the digit chooses.

- A key may be tested before it is sent or not.  What the test decided is kept with the
  key and its repetition, and used if a key down of the same key follows, whatever was
  granted or ended in between, even when it was not this press that was tested
  (`textService.cpp:1344`).
- A context may take no input: no context, an empty, disabled or read-only one.  Then
  neither the test nor the key down observes the key or carries anything out
  (`textService.cpp:1300` and `1345`); only the decision made before is forgotten
  (`DeclineKey`, `DeclineTested`).  Which context a key goes to is the caller's choice.
  The release of a key asks for nothing of its context.
- `keyboard.typed` is what a tap of Shift is judged by in `TapSwitches`: the text
  services at which another key went down while Shift was held, in a context that takes
  input.  No action reads it.
- `Write` is a write to the pipe: the bytes wait in it; a pipe whose other end is gone
  drops the command and disconnects, and the next write connects anew.  Commands of
  one connection are read in order; connections, and the UI thread, at their own pace.
- The window's slot and its messages are separate, as in `candidate_runtime.cpp`.
- Edits granted late hide the list (commit, discard and seal do so before they check
  the composition's epoch): `GrantEdit`.
- The host's `Abort` hides the window only.  A `BeginUIElement` that fails or declines
  leaves the list to the host.
- Left out: Alt as a key of its own, the numeric pad, the width of texts, and errors
  in the service other than those of a presentation.

### InferenceServer, GpuBoostWorker

A job is one closure posted to the inference thread.  Where a job waits for the boost's
process the thread is `at` that call, and everything else goes on.  The process reads
its request, calls the driver, and answers through shared memory and an event;
`late` bounds how often the service stops waiting before the answer (a second, in the
code).  Time passes in ticks, and every wait that is limited is bounded by them.

- The process restores the clock by itself when it is told to stop or the service has
  died, and may try `Attempts` times more before it exits with code 4.
- The GPU's mutex is taken before the driver is found, and released at exit.
- A lease whose release was refused `Failures` times is suspended, which is what the
  code says it does ("further boosts suspended, saved state retained").
- Not modelled: the NVIDIA backend (one call within the service), a kill of the boost's
  process, against which the documentation itself promises nothing.
- `prediction_pipe_server.hpp:307` speaks of restoring the previous GPU and stopping
  its process before replacement; the destructor waits for a second
  (`amd_gpu_boost_worker.cpp:135`), so a slow one may still be restoring.  The mutex
  then makes the new process decline, which `ClockIsLent` depends on.

### TrainingDataWriter

A commit is a pair of connection and number; what is stored of it is the password it is
sealed under.  The lock of the database and its settings is modelled where a thread
holds it over several steps; single SQL transactions are single steps.  `forgotten`,
`withdrawn` and `erased` record what must not be stored, for the properties.

- `withdrawn` does not include what the worker was already writing when it was taken
  back: a discard that arrives then is late, and the commit is written.
- `disturbed` says that two publications of the count have overlapped, which the code
  does not prevent (`training_data_writer.cpp:638`); `CountShown` excepts it.
- `service/README.md:217` says records go from `pending` to `trained`; the code keeps
  them by run, and `trained` is only found in old databases.  Modelled from the code.

### LoraTrainingManager, ModelSettings

Files are sets: models by run, adapters, data sets with the texts in them, assets of a
revision, trainers by release.  Every step that a crash can separate from the next is
an action, and `Killed` and `Restarts` may come between any two.  A process of the
trainer runs until it ends, fails, or is polled and terminated after a cancellation.

- The end of an operation removes its data set without asking whether that worked
  (`CleansUp`, `lora_training_manager.cpp:1530-1538`): the trainer is waited for five
  seconds after it was terminated, and its descendants not at all, so the file may still
  be open.  The removal after the trainer has ended well (line 1719) throws where it
  fails, and the password dialog takes no password where its own does
  (`settings_window.cpp:1217-1221`).
- The history picker and the dialogs are modal: `screen`.
- Between removing `current.revision` and renaming the new one
  (`lora_training_manager.cpp:1160`) a crash leaves no base model named, and it has to be
  downloaded again.  `NamedIsThere` says only that what is named is there.
- A save that fails after the core was replaced leaves the core on the new model and
  the settings on the old one (`main.cpp:410-411`); the next successful change brings
  them together (`AppliedIsRunning`).
- Not modelled: `.partial` and intermediate files of an export, the CUDA runtime's
  installation, old fingerprints, the separate model installer.  One export of the base
  model; the process of an export is assumed to end.

### UpdatePage, Settings

The checker's and the installer's threads post to the window, whose messages wait in
`inbox` until the UI thread is in no call.  `Settings` says who may step when: the page's
messages and clicks need a free UI thread, which an export or a modal dialog of
`ModelSettings` may hold, and at the end the notifier, the window, the transfer, the two
threads and the training manager are destroyed in the order of `main`'s locals.

- A release is its run number (`build`), which orders all channels, and its commit; a
  setup is the build it installs, so that equal hashes are equal builds.
- A cancellation may come before the operation is started, before it is remembered
  (`winrt_http.cpp:108-111`), while it runs, or when it has ended.
- The threads' `checking_` and `installing_` are cleared after the last message is posted,
  and both are read by the window; these are steps of their own.  A check that is begun
  in between is refused, with the button disabled and the rows cleared until the page is
  shown again or a later message arrives; `ControlsReturn` therefore speaks of checks
  that are under way.
- A row keeps the setup of an earlier answer that arrived after the check began
  (`settings_window.cpp:3436`).
- `asked` records what the user asked for, and for which channel a download began.
- Not modelled: the events that only change a text, the parsing and the validity of
  manifests, hashes, the partial file, the setup itself.

### LogQueue, Logger, Debugger

In `LogQueue` each action is one access to shared memory, and the accesses are
sequentially consistent; what the acquire and release orders of the code give is the
order of the message and its cell's turn, which are written in this order and in one
step.  A weak compare-exchange does not fail for nothing on the supported processors.
The logger's event is auto-reset.  A frame is written at once or waits for room;
`PipeRoom` bounds the frames a pipe holds.

- A message longer than a frame is left out by the writer, without a word.
- The number of drops is reported with the next message only; a report that is lost
  with its connection is lost, so `WindowIsTrue` speaks of one connection.
- Not modelled: the window's trimming of old text, its other panes, several processes
  that log, failures to create events, threads or messages.

## 3. What the runs show

A *use* names the calls that may be made and how many; together the uses of a run are
its bound.  Deadlock is not checked in any run: when the calls are used up and
everything is granted, answered and shown, the system rests, which is what it should do.

| Run | Bound | Shows |
|---|---|---|
| `typing` | 4 to 9 calls in nine uses, readings of two symbols, two compositions, one document | `ScreenMatches`, `ConversionMatchesReading`, `AwaitedStillPending`, `ResultsKeepTheirPlace`, `ChangedTextIsLeft`; that the document ends with what was typed (`DocumentsSettle`) |
| `documents` | 5 to 9 calls, two documents that grant at once; one that grants late | `DocumentsKeepApart`; `SealedTextSettles` under fairness |
| `worker` | 2 calls of any kind with one service; 3 predictions; 3 commits and discards, or mode questions and toggles, with two services | `Bookkeeping` (each prediction's answer is in one place), `DiscardsItsOwn`, `SettlesOnTheService`, `TogglesStand`, the refinement `IsBackend`, `RequestsAnswered`, `StopEnds` |
| `collecting` | 2 to 4 calls in nine uses, two connections with two commits each, a window of 2 ticks, a queue of 2 (256 in the code) | `ForgottenStaysOut`, `TrainedOnce`, `CountShown`, one password for all (`Bookkeeping`), `SettlesInTime` |
| `inference` | 2 to 6 calls in six uses, 2 clients, 1 context (as in the code), 2 boost processes, 2 refusals, 1 attempt | `LeaseIsKept`, `ContextsAreTended`, the refinement `ClockIsLent`, `ClockIsReturned`, `Answers` |
| `models` | 4 to 7 calls in four uses, 2 runs, 2 revisions and releases, 2 devices, one fault, one kill; five uses of the update page with 1 to 3 clicks, and one of both pages, 2 channels, up to 3 releases, one fault, one kill, any removal at an operation's end failing | `TextsGo`: none left by a completed training, none of another when the next one's password is asked for; `NamedIsThere`: of models, revisions, the trainer and the setup that was asked for; one user of the trainer (`Bookkeeping`), `AppliedIsRunning`, `OperationsEnd` |
| `candidates` | 5 to 7 keys and calls in five uses, 2 text services, 2 lists each, 3 connections, pages of 2 in 2 columns (9 and 4 in the code), contexts that take no input in one use | `ScreenIsTrue`, `CandidatesOK`, `ListIsLocked`, `TapSwitches`, `ClosedListLeaves` |
| `logging` | 3 and 1, 2 and 1, or 2 messages of two threads, 2 cells (512 in the code), 1 frame in a pipe, 2 connections, 2 starts | `QueueHolds`, `WindowIsTrue`, `LoggedIsShown`, `EveryoneStops` |
| `late_grant`, `setting`, `silent_reconnect`, `lost_list` | 2 to 5 calls | each violates one property; see Findings |

Why the bounds are enough.

- *Compositions.*  A result is late relative to *one* edit, choice, seal or newer
  request, so two entries and two requests already give every order; a reading of two
  symbols has an incomplete state, and is longer than its conversion, which is what
  makes an erasure across two sealed texts depend on their order.  Sealed text needs
  two segments for an erasure that reaches past one of them, and Backspaces enough.
- *Worker.*  Two predictions replace one another and a third shows that what was told
  stays told; a commit lost with its connection needs a second service, so that the
  next connection is one where the number kept would be valid.
- *Writer.*  A take-back, a switch, a password or a reset meets one commit in the queue,
  one in staging and one in the worker's hands.  A queue of two is full with one more.
- *Inference.*  One context and two clients already take it from one another; a process
  still restoring meets the one started in its place.
- *Models.*  Two runs let one be the other's parent, and one be offered while the other
  is discarded; one kill and one failure meet at any step of either.
- *Updates.*  Two releases let the setup on the disk be of the wrong one, a third is
  published between a check and the next; three clicks are a check, a press and another
  check before its answer.  The page and the models share the UI thread and the exit,
  but no data: one use has calls of both, an export that holds the UI thread while a
  check ends.
- *Candidates.*  Lists of 1, 3 and 5 in pages of 2 give one page, a short last page, and
  a group of columns that is not full; two text services and three connections let one
  be served again between two commands of the other.
- *Logging.*  With two cells four messages of two threads go round the queue twice, so a
  slow pusher meets its own cell a lap later.

The named bounds are `left` and `entries` of a use, `MaxEpochs`, `MaxSymbols`,
`PreviousText`, `starts`, `Window`, `QueueLimit`, `late`, `Workers`, `MaxRuns`,
`clicks`, `next`, `faults`, `kills`, `MaxLists`, `MaxConnections`, `MaxStarts`, `PipeRoom`, `logs`.

**Fairness** (weak, everywhere).

- `Composition!LiveSpec`: the UI thread finishes its calls, documents grant what is
  queued and the backend answers; without the last two nothing can settle, and that the
  backend answers is what `RequestsAnswered` is about.
- `EngineWorker!LiveSpec`: both threads run.  `StopEnds` needs nothing of the service.
  `RequestsAnswered` adds that a transfer to a service that lives completes, as it waits
  without a timeout (`pipeEngine.hpp:240`); it says so in its statement.
- `TrainingDataWriter!LiveSpec`: time passes, and the writer's and the settings'
  threads run, while the service does.
- `InferenceServer!LiveSpec`: the inference thread runs, the caller of `replace_core`
  and the timer too, time passes, and calls into the driver return, one way or another.
- `Settings!LiveSpec`: the threads run, and an export of the settings' threads ends
  by itself; the trainer's process in a training may hang for ever (`Trainer` has no
  fairness), and so may the server of a download (`Arrive`), which is what `OperationsEnd`
  is about.  A check ends at its deadline, and Windows ends a prompt nobody answers.
- `CandidateUi!LiveSpec`: the service's UI thread and the thread of each connection run.
- `Debugger!LiveSpec`: pushers, the logger's worker and the debugger's threads run,
  unless it is suspended.  Nothing is assumed of the threads that log.

## 4. What is proved

Each proof is of the specification the runs explore, for every value of the constants.
A property is seldom inductive; each part below names the strengthening and why it is
needed.  Every strengthening was first checked by TLC as an invariant of its run.

### CompositionProofs

Three theorems, for all documents, keys, uses and bounds.  The controller's methods are
operators on a controller state, so the invariants are operators of one too; each method
has a lemma per invariant, an action composes the lemmas of the methods it calls, and the
theorems follow by PTL.

`AwaitedAlwaysPending`: a sealed text that waits for a conversion waits for one that is
unanswered, was sent for it, and is the newest sent for it (`AwaitedStillPending`).  It is
what makes sealed text settle: a segment that waits for an answer already taken would wait
for ever.  It is not inductive: a result may be answered as superseded after a newer request
was sent, a segment takes over the request of the composition it was sealed from, and a
backend lost forgets all requests in the middle of a method.  The invariant is `Good`:

- `Counted`: every request ever sent has a number up to `tracker.sequence`,
  compositions are numbered below `nextEpoch`, and none is both open and sealed;
- `NewestOf`: no unanswered request of a composition is newer than the one it counts
  as its newest, and while that one is unanswered none was ever sent after it, so
  that it cannot be superseded (the worker only supersedes what is followed);
- `SentNewest`: this holds of the open composition's last request, which is what
  sealing hands to the segment;
- `Awaiting`: it holds of what every segment waits for, which is the goal.

`Good(st, FALSE)` leaves `Awaiting` out, for the states in the middle of losing the
backend.

`AlwaysMatches` (`ConversionMatchesReading`): a conversion is shown only for the reading it
was computed for.  A result travels from the request through the queue of a document, or is
held back for the candidate list, and the buffer it meets is edited, sealed, frozen and
finished meanwhile; so the invariant `Sound` follows every entry on that way:

- `CompositionFit`, `SegmentsFit`: an entry that shows a conversion was asked for, in this
  version, under the number it was converted by (`Known`), every buffer is well formed
  (`BufferOK`: identities are apart, and below `nextId`), and what is held back was asked
  for by this composition;
- `PendingFit`, `QueuesFit`: every entry of a request on its way, and of a result in a
  document's queue, is on record as asked.

That identity and version are enough to know a reading again is a fact of the buffer's
operators: whatever a key, a choice, a split reading or `freeze` makes of a buffer, an old
entry stays as it was, or has a newer version, and others have new identities and show no
conversion (`Edited`, one lemma per operator).  Freezing and choosing join sequences of
sequences and fold over them; `JoinedExists` and `FlattenJoined` show by induction on the
length what is joined, and `GatheredMore` what freezing leaves of a reading.

`AlwaysInPlace` (`ResultsKeepTheirPlace`) is about steps.  `Leads(st, other)` says that every
buffer of a later state grew out of the buffer of the same composition, open or sealed
(`Grown`: no entry returns to an earlier version, or in one version to an older request's
result), or is of a composition new since.  As growing is transitive, it is shown method by
method like the invariant, and `NewestConversionWins` follows (`GrewNewest`).
`LockedEntryUnchanged` follows from what each step that is not a key does to the open
composition's buffer: nothing, a merge that passes the locked entry over, or, where the
backend is lost, the end of what is pending (`NextKept`).  That a key is told from the other
steps by the calls left rests on `UsesAssumption`; the rest needs no assumption.

### CompositionScreenProofs

Three theorems about what connects the controller with the documents, for any documents,
bounds and orders of the grants, in every use that is `Undisturbed`:

- `ScreenAlwaysMatches` (`ScreenMatches`): between two calls, with no edit left to grant,
  the host shows the open composition, and it reads what the buffer says;
- `BooksAlwaysKept` (`Bookkeeping`): the types of all that is kept, and that a segment
  sealed before the text in front of it was read still has the edit that reads it queued
  (`ContextStillQueued`);
- `ChangedTextAlwaysStays` (`TouchedTextStays`, the first half of `ChangedTextIsLeft`): text
  of a composition that the user has changed is not written over, by no edit and no late
  conversion.

A use is undisturbed if one document is composed in at a time and the setting of the
immediate conversion stays.  One at a time means that the host grants its edits at once,
with any number of documents, or that it grants them as late as it likes and only one
document is opened and none closed.  All uses of `typing` are of this kind, and all of
`documents` but the one that changes the setting.  Without the condition the theorems would
be false, and that is a fact of the code: the runs `late_grant` and `setting` show what then
becomes of the screen, and with late grants in several documents an edit that finds another
document's composition on the screen gives its reading up, so that `ContextStillQueued`
fails (the hazard at `textService.cpp:1888`).

None is inductive.  An edit is queued by a method of the controller, waits in the queue
of its document while keys, results and terminations go on, and then finds a screen that
earlier edits have changed.  The invariant `Settling(D)` holds in every state, between and
inside calls, and follows the text of the document `D` on that way:

- `Flow`: the edits queued are those of one composition after the other, from the one the
  host shows to the one that is open; each but the open one is ended by its last edit, and
  text outside a composition is edited only between two of them.  An edit granted therefore
  finds its own composition on the screen, or none if it is to open it;
- `Scene`, `Opened`: no other document has edits of a composition; a `seal` edit still
  queued has its segment, in `D` and not in place; a segment or composition that has no
  context has its `open` edit queued; requests of the open composition name `D`;
- `Standing`: the composition shown is the last piece of `D`, no other piece belongs to a
  composition that is in use, and every tracked range is a placed segment's, with its text
  in the document; so what one composition does never touches the text of another;
- `Drawn`: the host shows the open composition as the buffer has it, or a `show` edit for
  it is queued.  Every method that changes the buffer queues one, and `show` draws what the
  buffer is when it is granted, so overtaken changes do no harm;
- `BusyOK`: while a termination or the stop of the service is under way, what it has
  already ended stays ended;
- `Marks`: a composition has one piece of text in a document; a piece the user has changed
  begins with the change, and is not the one shown.  What a composition writes consists of
  `Letter`s, none of which is the user's, so `Untouched` finds every change.

Under it lie the types of a controller state (`TInv`, in `CompositionProofs`), which every
method keeps (`Fine`); a method has one lemma of the types and one of the scene
(`Staged...`), an edit one of the screen and the text (`...Settles`), and `NextSettles`
composes them.  They rest on `BoundsAssumption` and `UsesAssumption`.

### EngineWorkerProofs

Five theorems, for any number of calls, compositions and lives of the service; each part
adds to the invariant of the one before it.

`OnlyItsOwnDiscarded`: a discard reaches the commit it was asked for, or none
(`DiscardsItsOwn`).  The two sides name a commit by a number on the wire, and the number
outlives connections and commits that were never sent.  `CommitInv` adds:

- `SameNumberSameCommit`: if the worker and the service remember the same number,
  they remember the same commit by it;
- `NumbersUsed`: neither remembers a number that was not used, so the next number is
  new to both, and 0 means none;
- `Prepared`: while a request is on its way, a commit to record is already the one
  remembered, without a number, and a commit to discard is the one remembered, with one.

`AnswerOnItsWayAlways` (`Bookkeeping`): a prediction that was not answered is in exactly
one of four places: the queue, the worker's hands, the list of those still to be told that
they were replaced, or the inbox with its answer.  `AnswerInv` adds the `Shape` of queue,
inbox and job, which ties each to the request it is about, and `OnePlace`, which says the
same with indices, so that no two entries of the queue or the inbox are of one request.
What `submit` leaves of the queue after `std::erase_if` is shown by induction (below).

`ImplementsBackend` is the refinement `IsBackend`: every step of the two threads, the
inbox and the service is a step of `ConversionBackend` or leaves the requests alone.  What
is answered at the end of the queue was asked for and not answered yet, by `AnswerInv`, and
a prediction told to be superseded was followed by another of its composition.

`TogglesStandAlways` (`TogglesStand`): no answer asked for before a toggle undoes it.
`InOrder` says that no job or answer comes from a later revision than the text service's,
and that everything ahead of a toggle, in the queue or in the inbox, has an earlier one.

`SettlesOnTheServiceAlways` (`SettlesOnTheService`): once both threads rest, the mode and
the connection shown are the service's.  `SettleInv` adds `WillProbe` (the pump sleeps
without a connection only if a probe waits in the inbox) and `TruthToCome` (the *last* task
of each kind in the inbox tells of what is, or a job that will ask is still in the queue).

They rest on `UsesAssumption` alone.

### CandidateProofs

Four theorems, for any number of text services, lists and connections, lists of any
size, pages of at most nine candidates, any number of columns and every use.

`ScreenIsAlwaysTrue` (`ScreenIsTrue`): once all that was written has been read, the window
shows the open list of the text service that presented last, as it is now, and a digit
chooses the candidate it numbers.  Between the list and the window lie a pipe, a thread
for each connection, one slot and a queue of messages, and none of them says which
list it is about.  `CandidateInv` adds what each of these still owes the screen:

- `LinksOK`: the service's connections of a text service are closed but for the one it
  writes to, and the *last* command in that one tells of the element as it is: it hides, or
  it presents the present page and selection of an open list (`Telling`);
- `SlotOK`: a snapshot in the slot has a message that will show it, and when no connection
  is active nothing waits to be shown and a visible window has a message that hides it;
- `SeenOK`: once the active connection is read, what is in the slot, or on the screen with
  no hide to come, is its text service's list as it is;
- `ClientsOK`: the selection is on the current page, a list that is shown has candidates and
  an anchor; `ServiceOK` and `UiOK`: numbers of connections grow, and one snapshot waits.

When everything is read, nothing hides the window any more and nothing is left in the slot,
so the last clause of `SeenOK` is the goal.  That the digits agree is arithmetic on pages
(`NumbersAreTrue`): the element cuts a group of pages out of the list and numbers one by
its place in the group, and `Numbered` finds the candidate again.

`CandidatesAreOK` (`CandidatesOK`) follows from the same invariant.  `ListIsAlwaysLocked`
(`ListIsLocked`) needs `LockOK`, which says besides that no list is open while a tested key
waits that was decided to be the composition's Escape: that ends the composition and may
leave the list alone, but with a list open it is the list's key, and none opens before the
tested key is handled or forgotten.

`TapAlwaysSwitches` (the action property `TapSwitches`) needs two facts more.  A press that
was tested and decided to be Shift going down is a press of Shift (`ClientOK`), and a Shift
that went down alone, or whose tested press would be the first, has no other key typed
after it at its text service (`TapOK`).  Both are about keys that are tested and never
handled: a decision kept from an earlier press is used for a later one, and only its key and
its repetition tell that it is not somebody else's.  A context that takes no input never
makes a tap (`DeclineTaps`): what is observed stays and the decision is forgotten.  Keys
that go down there are the exception `TapSwitches` makes; see Findings.

A text service's step is two things: what a call makes of its state with the commands it
sends, and what these do to the pipe.  `Handled` is the contract of the first (its last
command tells of its element, and where it sends none the element is as it was, or was not
shown; what is kept between keys is as it was), with a lemma for each handler; `Ends` that of the second (it touches its own
connections only), shown by induction on the number of commands sent (`TransmittedIs`).
`ClientBecomes` puts the two together once for all calls.  The service's and the UI
thread's steps are treated one by one.

They rest on `SizesAssumption` (a digit key for each candidate on a page; the code's pages have
nine), `UsesAssumption` and `BoundsAssumption`.

### InferenceProofs

`ServerLendsTheClock` is the refinement `ClockIsLent`: every step of
the server, its timer and the processes is a step of `ClockLease` or leaves it alone, so
the clock is raised only under a duty to lower it, at most one process has the duty, and
it ends with the clock lowered or the process given up.  `RaisedClockIsOwed` says that
while the clock is raised some process is bound to lower it, or has made all its
attempts.  The inductive invariant `IInv` has three parts:

- `Typed`: the shape of the processes;
- `Duties`: a process in a driver call has taken on the duty (or is done with it), and a
  process that runs owns the GPU's mutex, so that only one does;
- `PeakIsPending`: if the clock is raised, some process still has the duty on record.

The service's own steps are shown once to be `Outward`: they write to events and shared
memory only, which neither the duty nor the clock depends on; that is why no timeout and
no crash of the service can break the promise.  The processes' steps are then treated one
by one.  It rests on `WorkersAssumption` and `AttemptsAssumption`.

`LeaseAlwaysKept` (`LeaseIsKept`): the service knows of every duty it has to end.  A process
that owes the clock, and was not told to stop, is the one the lease is of, and the lease is
active; a timer has a process.  `LeasingInv` adds to `IInv`:

- `LeaseFits` and `CallsFit`: what the lease says and what call the inference thread is in
  agree, so that a process is asked by one call at a time;
- `Known`: the process that the lease or the thread is bound to stands where that call
  expects it, and every other was never launched, was told to stop, or has ended;
- `TimerOnce`: a job the timer posted is of the present lease only while the timer is not
  armed; so there is one at most, and the lease is active when it comes.

`ContextsAlwaysTended` (`ContextsAreTended`): a context serves one client, of the core that
is loaded, and is given back by who has left.  `TendInv` adds `CommandsWait`: a client has
one command under way and waits for it, so nobody who has left gets a context; and `Claims`:
whoever holds a context is there, or the job that takes it back is posted.  These two
theorems rest on the assumptions on capacity, times and attempts.

### TrainingDataProofs

Four theorems.

`AlwaysForgotten`: for any number of connections and commits,
any window, queue and use, what was taken back in time, accepted before everything was
erased, or waiting when the recording was switched off is never stored
(`ForgottenStaysOut`).  A commit to be forgotten may still wait in the queue, in the
worker's hands or among the staged, so the property says too little of the state before
it is written.  The invariant `IInv` adds:

- `Order`: what waits of a session waits in the order it was committed: written from
  hand, staged, in operation, queued; and nothing twice;
- `Fresh`: what waits is not stored, and was accepted in a generation that is past if it
  was accepted before everything was erased, or while that is under way;
- `Young`: the last commit of a connection is not written while it is in its window,
  unless the writer ends: nothing of the session is behind it to confirm it;
- `Doomed`: while a commit to be forgotten waits, what removes it stands in the queue
  behind it, before any commit of its session.  As the queue is then not empty, the worker
  does not turn to what is due, and as nothing confirms the commit, it does not write it
  on that account either.

Training, counting and the settings window's other calls are shown once to be `Quiet`: they
leave the worker and its queue alone.  A crash empties both.

The other three rest on it and on `Books /\ Shown`:

- `AlwaysKept` (`Bookkeeping`): every commit stored is sealed under the password that is
  set, or none is set and all are in plain text (`Kept`).  The worker seals with a
  password it may have read long ago; `Secret` says why that is the one that is set: it is
  good for one generation, and a new password can be set only where none is: at first, or
  once everything was erased, in a generation the worker has read nothing in;
- `NeverTwice` (`TrainedOnce`): `Lineage` is the least set of runs with a run and its
  parents in it, as the recursive query computes it, and so needs no recursion:
  `LineIsLeast` is all that is used of it.  A line does not grow when a run is added
  elsewhere (`LineKept`); the new run's own is its parent's and itself (`OnceLonger`), and
  its commits were looked up again in the transaction that adds it;
- `AlwaysCounted` (`CountShown`): `Right` says what each publisher brings.  The worker has
  stored one more than is shown, the erasing has read what is shown and nothing is left,
  the others have counted what is still so.  Two at once may both be wrong, and then
  `disturbed` says so until the service ends.

All four rest on `NumbersAssumption`, `WindowAssumption`, and on `UsesAssumption`, which
says of the database the service finds what it or an older version left: each commit has a
number its connection has used and is sealed under the password of the row, if there is
one; a run is on top of an earlier one, and refers to commits that are there, each once
along a line.

### ModelProofs

Four theorems, for any number of runs, records, revisions, releases and devices and every
use.  `SettingsInv` has three parts, as the update page shares no variable with the other
two: `ManagerInv /\ WindowInv /\ PageInv`.

*The manager and the disk* (`ManagerInv`).  One operation runs at a time, or one export of a
settings thread, which holds the mutex (`HeldOK`).  How far the operation has come says what
may be on the disk:

- `RunsOK`: what is in the history, offered or taken as a parent has a whole adapter, and
  the run of a training is one that has not completed until its last step;
- `TextsOK`: a training has texts on the disk only in the data set of its own run, none from
  the removal after the trainer's end on, and none of them was erased.  As a run that has
  not completed never completes later, and its number is not used again, what a failed
  removal or a kill leaves is never that of a completed one (`CompletedLeavesNone`).  A
  training begins where nothing is left (`StarterOK` below: while the password is asked for,
  or the start waits for its place in the queue of calls, nothing is left of an earlier one),
  which gives `NoneBeforeNext` and keeps the texts of two trainings apart;
- `DownloadOK`: a revision is named only when all its assets are placed, which the order of
  the asset, its place, the publication and the name gives;
- `InstallOK`: a trainer that is selected is there, or stands `Aside` in the backup of the
  installation that replaces it.

*The window* (`WindowInv`).  The UI thread and the history picker's thread change the core,
but only one at a time: `AppliesOK` says what is in the core, in `active` and in the settings
after each step of the one that does, and that otherwise `active` is what is saved.
`PickerOK` is what lets a discarded model be removed: a model the picker has prepared *anew*
neither runs nor is named in the settings, and an application takes that mark away first.

*The updates* (`PageInv`).  `NewerOK`: what a check has found, what is in a message or in a row
is newer than what is installed, development builds included; `AskedOK`: the download is of
the channel asked for; `SavedOK`: while the prompt is open the setup on the disk is the one it
stands for.

From it follow `SettingsBookkeeping` (`Bookkeeping`), `TextsAlwaysGo` (`TextsGo`),
`NamedIsAlwaysThere` (`NamedIsThere`) and `AppliedIsAlwaysRunning` (the action property
`AppliedIsRunning`).  The assumptions it rests on: `RunsAssumption`, `RevisionsAssumption`
(revisions and releases are numbered from 1, and 1 is what is published at first),
`DevicesAssumption`, `UsesAssumption` and `PagesAssumption` (what is on the disk, running and
published at the start is of the kind the code leaves there).

### LoggingProofs

`QueueAlwaysHolds`: for any number of threads and any capacity of
two cells or more, the lock-free queue gives each position to one thread, which fills it
before the worker takes it, and keeps the order of each thread (`QueueHolds`).  A thread
that has read a cell may be overtaken by whole laps before it claims the position, so the
invariant speaks of the `Lap`: the `Capacity` positions from the oldest cell that is not
free again, each with a cell of its own.

- `CellsInTurn`: within the lap a cell's sequence says whether its position holds a message;
- `ClaimsApart`: no two threads fill one position, and all fill one between the two ends;
- `ClaimsFree`: a thread looks no further than the next position, and if that is still the
  one it saw free, it is in the lap;
- `Carried`, and the order of each thread's numbers: a message on its way to a cell is the
  newest of its thread, and those in cells stand in order.

The sequence numbers are not bounded in the model, where the code's wrap after 2^64 pushes.

`WindowIsAlwaysTrue` (`WindowIsTrue`): over one connection the window shows a thread's
messages once and in order, every refusal before a message is in a report above it, no drop
is reported twice, and the count of producers is right once nothing is posted.  A message
goes from its thread's call through the queue, the worker's hands, its connection's pipe and
the window's posted lines to the text, and none of these knows the others; so the invariant
`WInv` follows it all the way:

- `Before`, `Sent`, `Ordered`: whatever is further along was logged before what comes behind
  it, by the same thread on the same connection: between the text and the posted lines,
  between these and each pipe, between a pipe and the worker, the queue and the cells;
- `NoMore`: each refusal is counted in one place, the counter the producers raise, what the
  worker took from it and owes, or a report on the way, so that the reports never tell of
  more than there were (some are lost with a connection, none is doubled);
- `ToldOK`, `OwesWhat`: what a thread was refused on this connection before a message is in
  the reports ahead of the message, or, while it is still in the queue, owed;
- `CountOK`: the window's count, with the differences still posted, is the number of clients
  being served.

The sums over reports are recursive functions on a sequence's indices; `ReportedAppend` and
`ReportedTail` show by induction what a line more or less does to them.

They rest on `CapacityAssumption`, `ThreadsAssumption` (the worker's own reports are of no
thread that logs) and `ConnectionsAssumption` (connections are numbered).

### Induction

What a recursive function computes, and that it exists, is shown by induction on numbers.
The library's induction theorems take an operator as a parameter, which the installed
provers cannot instantiate; induction is therefore used in the form of the least element
of a set of numbers (`LeastNumber`, `UpTo`, and `Recursion` for functions), which follows
from the well-foundedness of `<` on the naturals.  These few lemmas open each of the proof
modules that need them.  `EngineWorkerProofs` and `InferenceProofs` go on with what
`Without` (`std::erase_if`) leaves of a queue, in order and without loss (`WithoutLeaves`).

### Only model-checked

- liveness (`SealedTextSettles`, `RequestsAnswered`, `StopEnds`, `SettlesInTime`,
  `ClockIsReturned`, `Answers`, `OperationsEnd`, `ClosedListLeaves`, `LoggedIsShown`,
  `EveryoneStops`): fairness and ENABLED are out of the prover's reach;
- the text of the documents after a composition (`DocumentsSettle`, `DocumentsKeepApart`,
  and of `ChangedTextIsLeft` the half `SampleMatchesDocument`): what is written at the end is compared with
  all that was typed before, so the invariant would have to follow the buffer of every
  composition, edit by edit, into its piece of text and, for the first two, the model's
  record of what was typed.  `ScreenAlwaysMatches` proves the half of it that ends at the
  screen;
- the composition's `TypeOK` in uses that are not `Undisturbed`.

## 5. Findings

1. `late_grant`: with one document's edits granted late, a composition typed in
   another document is never shown and its text is lost, as `itfComposition` is one
   slot for all documents (`textService.cpp:1659`).
2. `setting`: switching immediate conversion while a composition is open changes
   what the buffer shows but not the screen; sealed then, the text is taken for
   changed by the user and its conversion is never written (`textService.cpp:988`).
3. `silent_reconnect`: a `ready`, `prefill`, commit or discard that reconnects
   tells nobody, and the probing stops: the icon stays X
   (`engine_worker.cpp:222`), against `frontend/README.md:92-93`.
4. `lost_list`: a list opened right after another was closed is not seen if the service's
   UI thread is behind: the older list's message shows the newer snapshot, and the hide
   in between then hides it (`candidate_runtime.cpp:58`).

`ConnectionShown` holds where every request reports (the last use of `worker`, by
`SettlesOnTheService`) and fails in `silent_reconnect`. The mode has the same weakness:
after a lost prediction, which switches the text service to English
(`engine_worker.cpp:96`), a prediction that reconnects tells of the connection but does
not ask for the mode (`engine_worker.cpp:250`), so `ModeShown` is claimed for mode
questions and toggles only. `TapSwitches` is claimed of keys in contexts that take input
only: with Shift held, a key that goes down in one that takes none is not observed
(`textService.cpp:1300`), and the release of Shift, which asks for nothing of its
context, switches the mode although Shift was not alone, against `key_router.hpp:109`,
"Shift went down with no other key since". Counting those keys too (`Down(c, key, TRUE)`
in `DeclineKey`), the property fails in the use of `candidates` that has them. Met on
the way and not claimed either way: a backtick's prefix survives a key that is not
taken, against the comment in `key_router.hpp:42`; a `BeginUIElement` that declined
keeps its number until the next.

## 6. Not modelled

Inside the modelled components, besides what section 2 names: re-activation of a text
service, private input scopes, discarding the last commit after Backspace (the worker's
and the service's sides of it are in `EngineWorker` and `TrainingDataWriter`), and
Backspace passed through to the application.  Encodings and their limits are abstract: a
composition of more than 1024 entries makes the service close the pipe
(`prediction_pipe_server.hpp:237`), which the client takes for a lost backend.  An engine
whose factory throws (`engine_worker.cpp:161`, an allocation failure) is not modelled.

Whole components, see `PROJECT.json`: the layout of the history tree, tray and UI
start-up, the matcher of custom names (a pure function of characters), the model
installer, registration and themes.  The inference core and the trainer are submodules
outside this repository.

## 7. What is left

1. Proofs: `SampleMatchesDocument`, with an invariant that ties a commit still queued to the
   text the last `show` before it draws; the composition's `TypeOK` where several documents
   grant late, with one that knows of each range which document it is in.
2. The two sides of a commit's life in one specification: `EngineWorker`'s record and
   discard, and `TrainingDataWriter`'s commands.
3. The recent-commit discard and private scopes of the text service.
4. An abstract lifecycle of a composition (open, sealed, final) that `Composition`
   implements.
