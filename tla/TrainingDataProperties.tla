----------------------- MODULE TrainingDataProperties -----------------------
(***************************************************************************)
(* What is expected of TrainingDataWriter.                                 *)
(***************************************************************************)
EXTENDS TrainingDataWriter

Entries == [commit : Commits, generation : Nat]

\* The shape of the state.
DataTypeOK ==
  /\ stored \subseteq Commits /\ \A c \in stored : table[c] \in 0..key
  /\ excluded \subseteq stored /\ unknown \subseteq stored /\ trained \subseteq stored
  /\ protection \in {"none", "off", "on"}
  /\ recording => protection # "none"
  /\ \A i \in DOMAIN queue : queue[i].kind \in {"commit", "discard", "clear"}
  /\ staged \in Seq(Entries)
  /\ worker.at \in {"none", "start", "wait", "run", "drain", "write", "stage", "persist",
                    "publish", "ended", "failed"}
  /\ worker.due \in 0..Len(staged)
  /\ lock \in {"free", "worker", "settings"}
  /\ published \in Nat
  /\ \A r \in DOMAIN runs : runs[r].parent \in 0..(r - 1) /\ runs[r].commits \subseteq stored

\* Backspace right after a commit, within the window, keeps it out of the
\* database for good, whatever else is staged, queued or written meanwhile; but
\* for a worker already writing what is due (discard_staged, worker_main).
TakenBackStaysOut == withdrawn \intersect stored = {}

\* Nothing accepted before everything was erased is written afterwards: not
\* from the queue, not from what is staged, not by a worker that had already
\* decided to write it (reset_conversation_data, generation_).
ErasedStaysErased == erased \intersect stored = {}

\* What waited when the recording was switched off is not written, even if it
\* is switched on again at once; but for what is staged while the worker is
\* writing some of it (set_recording_enabled, worker_main).
SwitchedOffForgets == forgotten \intersect stored = {}

\* What was to be forgotten stays so, whichever way it was.
ForgottenStaysOut == TakenBackStaysOut /\ ErasedStaysErased /\ SwitchedOffForgets

\* Everything stored can be opened with the password that is set, also after a
\* new one replaced it (configure_password, public_generation).
OnePassword == up /\ protection # "none" => \A c \in stored : table[c] = key

\* What is kept is well formed and can be read.
Bookkeeping == DataTypeOK /\ OnePassword

\* Nothing is trained twice along a line of runs, though commits come and go
\* while a training runs and any run may be the parent of another
\* (complete_lora_training).
TrainedOnce == OnceIn(runs)

\* When nobody is publishing it, the number of commits shown is the number that
\* can be trained on top of the latest run of the active model; unless two
\* publications have overlapped, which is not guarded against.
CountShown ==
  up /\ Publishing = {} /\ ~disturbed => published = Cardinality(Available(Latest(RunsOf(active))))

\* A commit accepted does not stay in memory: it is written, taken back or
\* dropped.
SettlesInTime ==
  \A c \in Commits :
    LET waits == c \in Queued \union Held \union InHand
    IN waits ~> (~waits \/ worker.at \in {"ended", "failed"})
=============================================================================
