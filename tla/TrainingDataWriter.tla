------------------------- MODULE TrainingDataWriter -------------------------
(***************************************************************************)
(* Commits collected for training (service/training_data_writer) and the   *)
(* commands of a client that feed them (handle_client).                    *)
(*                                                                         *)
(* A commit waits in plain text in the writer's memory for Window ticks;   *)
(* then, or when the next commit of its session comes, the worker thread   *)
(* seals and writes it.  Meanwhile the user may take it back, switch the   *)
(* recording off, set a password or erase everything, and training takes   *)
(* commits out of the same database.  The process may be killed.           *)
(*                                                                         *)
(* A commit is <<s, n>>: the n-th of the connection s.  Its text is not    *)
(* modelled; what is stored of it is the password it is sealed under.      *)
(***************************************************************************)
EXTENDS Integers, Sequences, FiniteSets, SequencesExt

CONSTANTS
  Sessions,    \* connections, each with a collection_session_id of its own
  Numbers,     \* commit tokens
  Literals,    \* the commits that have no bopomofo reading
  Bases,       \* fingerprints of base models
  NoBase,      \* the fingerprint of runs older than fingerprints
  Window,      \* staging_window_, in ticks
  QueueLimit,  \* commits the queue takes
  Uses         \* the uses that are explored, see Use

Commits == Sessions \X Numbers

ASSUME NumbersAssumption == Numbers \subseteq Nat \ {0}
ASSUME BasesAssumption   == NoBase \notin Bases
ASSUME WindowAssumption  == Window \in Nat \ {0}
ASSUME LimitAssumption   == QueueLimit \in Nat \ {0}

\* What a run was trained on top of: S holds the parents of its runs, run 0 is
\* the base model.
Closed(S, history) == \A l \in S : history[l].parent \in S \union {0}

\* The line of a run: itself, its parent, and so on.
LineIn(history, r) ==
  {l \in DOMAIN history :
     \A S \in SUBSET DOMAIN history : Closed(S, history) /\ r \in S \union {0} => l \in S}

\* Nothing is trained twice along a line.
OnceIn(history) ==
  \A r \in DOMAIN history : \A a, b \in LineIn(history, r) :
    a # b => history[a].commits \intersect history[b].commits = {}

Run == [parent : Nat, base : Bases \union {NoBase}, commits : SUBSET Commits, total : Nat]

\* One use: the calls that are made and how many (the bound), and the database
\* the service finds, as it or an older version left it.
Found(use, found) ==
  /\ use.among \subseteq STRING /\ use.left \in Nat
  /\ found.used \in [Sessions -> Nat] /\ found.version \in Nat /\ found.key \in Nat
  /\ IsFiniteSet(DOMAIN found.table)
  /\ \A c \in DOMAIN found.table :
       /\ c \in Commits /\ c[2] <= found.used[c[1]]
       /\ found.table[c] = IF found.protection = "none" THEN 0 ELSE found.key
  /\ found.trained \subseteq DOMAIN found.table
  /\ found.protection \in {"none", "off", "on"}
  /\ found.runs \in Seq(Run)
  /\ \A r \in DOMAIN found.runs : /\ found.runs[r].parent < r
                                  /\ found.runs[r].commits \subseteq DOMAIN found.table
  /\ OnceIn(found.runs)

ASSUME UsesAssumption == \A use \in Uses : Found(use, use.database)

VARIABLES
  \* the database
  table,       \* training_commits: the password each commit is sealed under, 0 for plain text
  excluded,    \* the commits in state 'excluded'
  trained,     \* the commits an old version left in state 'trained'
  unknown,     \* legacy_training_unknown
  version,     \* PRAGMA user_version
  protection,  \* commit_protection: is there a row, and is it enabled
  key,         \* the password of that row
  runs,        \* lora_training_runs, each with its lora_run_commits
  \* the process
  up,          \* the service runs
  recording,   \* recording_enabled_
  generation,  \* generation_
  queue,       \* queue_
  stopping,    \* stopping_
  lock,        \* the owner of protection_mutex_
  published,   \* pending_count_
  active,      \* active_base_model_fingerprint_
  counting,    \* the calls of publish_latest_available_count under way
  settings,    \* the call of set_recording_enabled or reset_conversation_data under way
  training,    \* the training that has read its records
  \* the worker thread
  worker,      \* where it is, and what it has in hand
  staged,      \* staged
  cached,      \* public_generation, public_parameters
  \* the clients, and the time since a commit was queued
  used,        \* the numbers each session has used
  latest,      \* latest_commit_token
  age,
  calls,       \* the calls still to be made
  \* what the properties look back at
  withdrawn,   \* commits taken back in time, while none was being written
  erased,      \* commits accepted before everything was erased
  forgotten,   \* commits that waited when the recording was switched off
  disturbed    \* two publications of the count have overlapped

database == <<table, excluded, trained, unknown, version, protection, key, runs>>
memory   == <<recording, generation, queue, stopping, lock>>
counts   == <<published, active, counting>>
thread   == <<worker, staged, cached>>
clients  == <<used, latest, age, calls>>
ghosts   == <<withdrawn, erased, forgotten>>
vars     == <<database, up, memory, counts, settings, training, thread, clients,
              ghosts, disturbed>>

stored == DOMAIN table

-----------------------------------------------------------------------------
(***************************************************************************)
(* What can be trained on top of a run.                                    *)
(***************************************************************************)
Lineage(r) == LineIn(runs, r)

\* Mutant: what the parent was trained on is offered again.
AvailableAgain(r) ==
  (stored \ (excluded \union unknown)) \ (IF r = 0 THEN {} ELSE runs[r].commits)

Available(r) ==
  (stored \ (excluded \union unknown)) \ UNION {runs[l].commits : l \in Lineage(r)}

RunsOf(base) == {r \in DOMAIN runs : base = NoBase \/ runs[r].base = base}
Latest(S)    == IF S = {} THEN 0 ELSE CHOOSE r \in S : \A q \in S : q <= r

\* Mutant: the newest run counts whatever model it was trained from.
CountOfAnyBase == Cardinality(Available(Len(runs)))
Count == Cardinality(Available(Latest(RunsOf(active))))

Idle        == [at |-> "idle"]
NotCounting == [at |-> "no", count |-> 0]
NoCommit    == [commit |-> <<>>, generation |-> 0]
NoOperation == [kind |-> "none", commit |-> <<>>, generation |-> 0, inTime |-> FALSE]

\* operation: what it took from the queue; hand: the commit it is about to
\* write; due: how many more it writes then; last: before it ends.
Resting(at) == [at |-> at, operation |-> NoOperation, hand |-> NoCommit, due |-> 0, last |-> FALSE]

-----------------------------------------------------------------------------
(***************************************************************************)
(* The service starts, and ends.                                           *)
(***************************************************************************)
Init ==
  /\ \E use \in Uses :
       /\ calls = [among |-> use.among, left |-> use.left]
       /\ table = use.database.table
       /\ trained = use.database.trained
       /\ version = use.database.version
       /\ protection = use.database.protection
       /\ key = use.database.key
       /\ runs = use.database.runs
       /\ used = use.database.used
  /\ excluded = {}
  /\ unknown = {}
  /\ up = FALSE
  /\ recording = FALSE
  /\ generation = 0
  /\ queue = <<>>
  /\ stopping = FALSE
  /\ lock = "free"
  /\ published = 0
  /\ active = NoBase
  /\ counting = [p \in {"settings", "training"} |-> NotCounting]
  /\ settings = Idle
  /\ training = Idle
  /\ worker = Resting("none")
  /\ staged = <<>>
  /\ cached = [generation |-> 0, key |-> 0]
  /\ latest = [s \in Sessions |-> 0]
  /\ age = [c \in Commits |-> IF c[2] <= used[c[1]] THEN Window + 1 ELSE 0]
  /\ withdrawn = {}
  /\ erased = {}
  /\ forgotten = {}
  /\ disturbed = FALSE

\* An old version left what it had trained on in a state of its own, without
\* telling which run it was for, and collected commits without any reading.
Readable ==
  {c \in stored : c \notin Literals \/ table[c] # 0 \/ c \in trained \union excluded \union unknown}

\* What refers to a row goes with it.
RunsWithout(C) == [r \in DOMAIN runs |-> [runs[r] EXCEPT !.commits = @ \ C]]

Start ==
  /\ ~up
  /\ up' = TRUE
  /\ unknown' = unknown \union trained
  /\ trained' = {}
  /\ IF version < 3
     THEN /\ table' = [c \in Readable |-> table[c]]
          /\ runs' = RunsWithout(stored \ Readable)
     ELSE UNCHANGED <<table, runs>>
  /\ version' = 4
  /\ recording' = (protection = "on")
  /\ active' = NoBase
  /\ worker' = Resting("start")
  /\ UNCHANGED <<excluded, protection, key, generation, queue, stopping, lock, counting, settings,
                 training, staged, cached, clients, ghosts>>
  /\ published' = Count'

\* The process ends: what was only in its memory is gone, and the connections
\* break.  A session of the next one has a name of its own, which is modelled by
\* not using a number again.
Gone ==
  /\ up' = FALSE
  /\ recording' = FALSE
  /\ generation' = 0
  /\ queue' = <<>>
  /\ stopping' = FALSE
  /\ lock' = "free"
  /\ active' = NoBase
  /\ counting' = [p \in DOMAIN counting |-> NotCounting]
  /\ settings' = Idle
  /\ training' = Idle
  /\ worker' = Resting("none")
  /\ staged' = <<>>
  /\ cached' = [generation |-> 0, key |-> 0]
  /\ latest' = [s \in Sessions |-> 0]
  /\ age' = [c \in Commits |-> IF c[2] <= used[c[1]] THEN Window + 1 ELSE 0]
  /\ UNCHANGED <<database, published, used, ghosts>>

Call(name) ==
  /\ up
  /\ name \in calls.among
  /\ calls.left > 0
  /\ calls' = [calls EXCEPT !.left = @ - 1]

Kill == Call("kill") /\ Gone

\* ~TrainingDataWriter: nobody calls it any more.
Stop ==
  /\ Call("stop")
  /\ settings = Idle /\ training = Idle /\ \A p \in DOMAIN counting : counting[p] = NotCounting
  /\ ~stopping
  /\ stopping' = TRUE
  /\ UNCHANGED <<database, up, recording, generation, queue, lock, counts, settings, training,
                 thread, used, latest, age, ghosts>>

Joined ==
  /\ stopping
  /\ worker.at \in {"ended", "failed"}
  /\ Gone
  /\ UNCHANGED calls

Tick ==
  /\ up
  /\ \E c \in Commits : c[2] <= used[c[1]] /\ age[c] <= Window
  /\ age' = [c \in Commits |->
               IF c[2] <= used[c[1]] /\ age[c] <= Window THEN age[c] + 1 ELSE age[c]]
  /\ UNCHANGED <<database, up, memory, counts, settings, training, thread, used, latest, calls, ghosts>>

-----------------------------------------------------------------------------
(***************************************************************************)
(* The commands of a client.                                               *)
(***************************************************************************)
Clear         == [NoOperation EXCEPT !.kind = "clear"]
Commit(c)     == [kind |-> "commit", commit |-> c, generation |-> generation, inTime |-> TRUE]
\* Whether it was queued within the window of the commit is all that matters of
\* the time a discard was queued.
Discard(c)    == [kind |-> "discard", commit |-> c, generation |-> 0, inTime |-> age[c] <= Window]

Accepts == recording /\ ~stopping

Enqueue(c) ==
  IF Accepts /\ Len(queue) < QueueLimit THEN queue' = Append(queue, Commit(c)) ELSE UNCHANGED queue

RecordCommit(s) ==
  /\ Call("record")
  /\ used[s] + 1 \in Numbers
  /\ used' = [used EXCEPT ![s] = @ + 1]
  /\ latest' = [latest EXCEPT ![s] = used[s] + 1]
  /\ Enqueue(<<s, used[s] + 1>>)
  /\ UNCHANGED <<database, up, recording, generation, stopping, lock, counts, settings, training,
                 thread, age, ghosts>>

\* The worker has seen that a commit is due and is writing what is.
Draining ==
  worker.operation = NoOperation /\ worker.at \in {"drain", "write", "persist", "publish"}

\* Only the last commit of the connection is discarded.  A discard is taken
\* however long the queue is.
DiscardLastCommit(s) ==
  /\ Call("discard")
  /\ latest[s] # 0
  /\ LET c == <<s, latest[s]>> IN
       IF Accepts
       THEN /\ queue' = Append(queue, Discard(c))
            /\ withdrawn' = IF age[c] < Window /\ ~Draining THEN withdrawn \union {c}
                            ELSE withdrawn
       ELSE UNCHANGED <<queue, withdrawn>>
  /\ UNCHANGED <<database, up, recording, generation, stopping, lock, counts, settings, training,
                 thread, used, latest, age, erased, forgotten>>

-----------------------------------------------------------------------------
(***************************************************************************)
(* The worker thread.                                                      *)
(***************************************************************************)
WorkerUnchanged == <<up, recording, generation, stopping, active, counting, settings, training,
                     clients, ghosts>>
Forward(at)     == worker' = Resting(at)

\* The database is opened; if it cannot be, the thread ends.
WorkerStart ==
  /\ worker.at = "start"
  /\ \E at \in {"wait"} \union (IF "workerFails" \in calls.among THEN {"failed"} ELSE {}) : Forward(at)
  /\ UNCHANGED <<WorkerUnchanged, database, queue, lock, published, staged, cached>>

Due(i) == age[staged[i].commit] >= Window

\* Under the lock of the queue: an operation comes first, then the end, then
\* what has waited long enough.
TakeOperation ==
  /\ worker.at = "wait"
  /\ queue # <<>>
  /\ worker' = [Resting("run") EXCEPT !.operation = Head(queue)]
  /\ queue' = Tail(queue)
  /\ UNCHANGED <<WorkerUnchanged, database, lock, published, staged, cached>>

Finish ==
  /\ worker.at = "wait"
  /\ queue = <<>> /\ stopping
  /\ worker' = [Resting("write") EXCEPT !.due = Len(staged), !.last = TRUE]
  /\ UNCHANGED <<WorkerUnchanged, database, queue, lock, published, staged, cached>>

Wake ==
  /\ worker.at = "wait"
  /\ queue = <<>> /\ ~stopping
  /\ staged # <<>> /\ Due(1)
  /\ Forward("drain")
  /\ UNCHANGED <<WorkerUnchanged, database, queue, lock, published, staged, cached>>

\* The time is read again once the lock is released.
ReadClock ==
  /\ worker.at = "drain"
  /\ worker' = [Resting("write") EXCEPT
                  !.due = Cardinality({n \in 1..Len(staged) : \A i \in 1..n : Due(i)})]
  /\ UNCHANGED <<WorkerUnchanged, database, queue, lock, published, staged, cached>>

Write ==
  /\ worker.at = "write"
  /\ IF worker.due = 0
     THEN /\ Forward(IF worker.last THEN "ended" ELSE "wait")
          /\ UNCHANGED staged
     ELSE /\ worker' = [worker EXCEPT !.at = "persist", !.hand = Head(staged), !.due = @ - 1]
          /\ staged' = Tail(staged)
  /\ UNCHANGED <<WorkerUnchanged, database, queue, lock, published, cached>>

RunClear ==
  /\ worker.at = "run" /\ worker.operation.kind = "clear"
  /\ staged' = <<>>
  /\ Forward("wait")
  /\ UNCHANGED <<WorkerUnchanged, database, queue, lock, published, cached>>

\* Mutant: the time the discard is carried out decides.
TakesBackLate(discard, entry) == entry.commit = discard.commit /\ age[entry.commit] < Window

TakesBack(discard, entry) == entry.commit = discard.commit /\ discard.inTime

RunDiscard ==
  /\ worker.at = "run" /\ worker.operation.kind = "discard"
  /\ staged' = RemoveFirstMatch(staged, LAMBDA entry : TakesBack(worker.operation, entry))
  /\ Forward("wait")
  /\ UNCHANGED <<WorkerUnchanged, database, queue, lock, published, cached>>

\* The next commit of a session confirms the one before it, at this place in
\* staged; 0 if there is none.
Earlier == SelectInSeq(staged, LAMBDA entry : entry.commit[1] = worker.operation.commit[1])

RunCommit ==
  /\ worker.at = "run" /\ worker.operation.kind = "commit"
  /\ IF Earlier = 0
     THEN /\ worker' = [worker EXCEPT !.at = "stage"]
          /\ UNCHANGED staged
     ELSE /\ worker' = [worker EXCEPT !.at = "persist", !.hand = staged[Earlier]]
          /\ staged' = RemoveAt(staged, Earlier)
  /\ UNCHANGED <<WorkerUnchanged, database, queue, lock, published, cached>>

Stage ==
  /\ worker.at = "stage"
  /\ LET operation == worker.operation IN
       staged' = IF recording /\ operation.commit \notin Literals
                 THEN Append(staged, [commit |-> operation.commit,
                                      generation |-> operation.generation])
                 ELSE staged
  /\ Forward("wait")
  /\ UNCHANGED <<WorkerUnchanged, database, queue, lock, published, cached>>

\* Back to the operation, or to the next commit that is due.
Resumed == [worker EXCEPT !.at = IF worker.operation = NoOperation THEN "write" ELSE "stage",
                          !.hand = NoCommit]

Writable(entry) == recording /\ entry.generation = generation

\* Mutant: a password once read is used until the thread ends.
PasswordKept(entry) == IF cached.key # 0 THEN cached.key ELSE key

\* The password is read once for each generation.
Password(entry) ==
  IF cached.generation = entry.generation /\ cached.key # 0 THEN cached.key ELSE key

\* persist: under protection_mutex_.
Persist ==
  /\ worker.at = "persist" /\ lock = "free"
  /\ LET c   == worker.hand.commit
         new == Writable(worker.hand) /\ Password(worker.hand) # 0 IN
       /\ cached' = IF Writable(worker.hand)
                    THEN [generation |-> worker.hand.generation, key |-> Password(worker.hand)]
                    ELSE cached
       /\ IF new /\ c \notin stored
          THEN /\ table' = [d \in stored \union {c} |-> IF d = c THEN Password(worker.hand)
                                                          ELSE table[d]]
               /\ worker' = [worker EXCEPT !.at = "publish"]
               /\ lock' = "worker"
          ELSE /\ worker' = Resumed
               /\ UNCHANGED <<table, lock>>
  /\ UNCHANGED <<WorkerUnchanged, excluded, trained, unknown, version, protection, key, runs,
                 queue, published, staged>>

\* Mutant: protection_mutex_ is not released.
PublishWrittenLocked ==
  /\ worker.at = "publish"
  /\ published' = published + 1
  /\ worker' = Resumed
  /\ UNCHANGED <<WorkerUnchanged, database, queue, lock, staged, cached>>

\* publish_pending_delta(1)
PublishWritten ==
  /\ worker.at = "publish"
  /\ published' = published + 1
  /\ worker' = Resumed
  /\ lock' = "free"
  /\ UNCHANGED <<WorkerUnchanged, database, queue, staged, cached>>

WorkerStep ==
  \/ WorkerStart \/ TakeOperation \/ Finish \/ Wake \/ ReadClock \/ Write
  \/ RunClear \/ RunDiscard \/ RunCommit \/ Stage \/ Persist \/ PublishWritten

-----------------------------------------------------------------------------
(***************************************************************************)
(* The settings window.                                                    *)
(***************************************************************************)
CallUnchanged == <<up, active, training, used, latest, age>>

Queued   == {queue[i].commit : i \in {j \in DOMAIN queue : queue[j].kind = "commit"}}
Held     == {staged[i].commit : i \in DOMAIN staged}
InHand   == IF worker.operation.kind = "commit" THEN {worker.operation.commit} ELSE {}

\* The worker has gone to write something of what is staged.
Writing == Draining \/ (worker.operation.kind = "commit" /\ worker.at # "stage")

\* set_recording_enabled: the row, then the flag, then the queue.
Switch(on) ==
  /\ Call("switch")
  /\ settings = Idle /\ lock = "free"
  /\ IF on /\ protection = "none" THEN UNCHANGED <<protection, recording, lock, settings>>
     ELSE /\ protection' = IF protection = "none" THEN "none" ELSE IF on THEN "on" ELSE "off"
          /\ recording' = on
          /\ lock' = IF on THEN "free" ELSE "settings"
          /\ settings' = IF on THEN Idle ELSE [at |-> "switchedOff"]
  /\ UNCHANGED <<CallUnchanged, table, excluded, trained, unknown, version, key, runs, generation,
                 queue, stopping, published, counting, thread, ghosts>>

ClearQueue ==
  /\ settings.at = "switchedOff"
  /\ queue' = <<Clear>>
  /\ forgotten' = forgotten \union Queued \union InHand \union (IF Writing THEN {} ELSE Held)
  /\ lock' = "free"
  /\ settings' = Idle
  /\ UNCHANGED <<CallUnchanged, database, recording, generation, stopping, published, counting,
                 thread, calls, withdrawn, erased>>

\* reset_conversation_data: nothing more is accepted; everything is deleted, or
\* the database refuses.
Reset ==
  /\ Call("reset")
  /\ settings = Idle /\ lock = "free" /\ training = Idle
  /\ recording' = FALSE
  /\ generation' = generation + 1
  /\ queue' = <<Clear>>
  /\ lock' = "settings"
  /\ settings' = [at |-> "erase"]
  /\ UNCHANGED <<CallUnchanged, database, stopping, published, counting, thread, ghosts>>

ErasedRuns == [r \in DOMAIN runs |-> [runs[r] EXCEPT !.commits = {}]]

Erase ==
  /\ settings.at = "erase"
  /\ table' = [c \in {} |-> 0]
  /\ excluded' = {}
  /\ unknown' = {}
  /\ protection' = "none"
  /\ runs' = ErasedRuns
  /\ settings' = [at |-> "publish", less |-> published]
  /\ erased' = erased \union {c \in Commits : c[2] <= used[c[1]]}
  /\ UNCHANGED <<CallUnchanged, trained, version, key, recording, generation, queue, stopping, lock,
                 published, counting, thread, calls, withdrawn, forgotten>>

EraseFails ==
  /\ settings.at = "erase"
  /\ settings' = Idle
  /\ lock' = "free"
  /\ UNCHANGED <<CallUnchanged, database, recording, generation, queue, stopping, published,
                 counting, thread, calls, ghosts>>

Less(n, m) == IF n > m THEN n - m ELSE 0

PublishErased ==
  /\ settings.at = "publish"
  /\ published' = Less(published, settings.less)
  /\ settings' = Idle
  /\ lock' = "free"
  /\ UNCHANGED <<CallUnchanged, database, recording, generation, queue, stopping, counting, thread,
                 calls, ghosts>>

\* configure_password: what is in plain text is sealed, then the recording is
\* switched on, unless the database refuses in between.
Configure ==
  /\ Call("configure")
  /\ settings = Idle /\ lock = "free"
  /\ protection = "none"
  /\ key' = key + 1
  /\ table' = [c \in stored |-> IF table[c] = 0 THEN key + 1 ELSE table[c]]
  /\ \E on \in BOOLEAN :
       /\ protection' = IF on THEN "on" ELSE "off"
       /\ recording' = (recording \/ on)
  /\ UNCHANGED <<CallUnchanged, excluded, trained, unknown, version, runs, generation, queue,
                 stopping, lock, published, counting, settings, thread, ghosts>>

-----------------------------------------------------------------------------
(***************************************************************************)
(* Training takes commits out, and the count of those left is published.   *)
(***************************************************************************)
TrainingUnchanged == <<version, trained, protection, key, up, memory, settings, thread, used, latest, age, ghosts>>

Counted(p) == counting' = [counting EXCEPT ![p].at = "count"]

\* delete_pending
DeletePending(c) ==
  /\ Call("delete")
  /\ counting["settings"] = NotCounting
  /\ c \in stored \ excluded
  /\ table' = [d \in stored \ {c} |-> table[d]]
  /\ unknown' = unknown \ {c}
  /\ runs' = RunsWithout({c})
  /\ Counted("settings")
  /\ UNCHANGED <<TrainingUnchanged, excluded, published, active, training>>

ExcludeUnselected(selected, reviewed) ==
  /\ Call("exclude")
  /\ counting["settings"] = NotCounting
  /\ excluded' = excluded \union ((reviewed \ selected) \intersect stored)
  /\ Counted("settings")
  /\ UNCHANGED <<TrainingUnchanged, table, unknown, runs, published, active, training>>

\* register_installed_models_worker: the runs without a fingerprint get that of
\* the installed model, which is the active one from then on.
Identify(base) ==
  /\ Call("identify")
  /\ counting["training"] = NotCounting /\ training = Idle
  /\ runs' = [r \in DOMAIN runs |->
                IF runs[r].base = NoBase THEN [runs[r] EXCEPT !.base = base] ELSE runs[r]]
  /\ active' = base
  /\ Counted("training")
  /\ UNCHANGED <<TrainingUnchanged, table, excluded, unknown, published, training>>

\* pending_records: the records of the commits chosen that are still available.
ReadRecords(parent, base, chosen) ==
  /\ Call("train")
  /\ training = Idle /\ counting["training"] = NotCounting
  /\ parent # 0 => runs[parent].base = base
  /\ LET records == chosen \intersect Available(parent) IN
       /\ records # {}
       /\ \A c \in records : table[c] # 0
       /\ protection # "none"
       /\ training' = [at |-> "training", parent |-> parent, base |-> base, records |-> records,
                       total |-> Cardinality(records)
                                   + (IF parent = 0 THEN 0 ELSE runs[parent].total)]
  /\ UNCHANGED <<TrainingUnchanged, table, excluded, unknown, runs, counts>>

StillAvailable == training.records \subseteq Available(training.parent)

\* complete_lora_training
Complete ==
  /\ training.at = "training"
  /\ IF StillAvailable
     THEN /\ runs' = Append(runs, [parent |-> training.parent, base |-> training.base,
                                   commits |-> training.records, total |-> training.total])
          /\ Counted("training")
     ELSE UNCHANGED <<runs, counting>>
  /\ training' = Idle
  /\ UNCHANGED <<TrainingUnchanged, table, excluded, unknown, published, active, calls>>

\* publish_latest_available_count: counted first, told under callback_mutex_.
CountNow(p) ==
  /\ counting[p].at = "count"
  /\ counting' = [counting EXCEPT ![p] = [at |-> "publish", count |-> Count]]
  /\ UNCHANGED <<TrainingUnchanged, table, excluded, unknown, runs, published, active, training,
                 calls>>

PublishCount(p) ==
  /\ counting[p].at = "publish"
  /\ published' = counting[p].count
  /\ counting' = [counting EXCEPT ![p] = NotCounting]
  /\ UNCHANGED <<TrainingUnchanged, table, excluded, unknown, runs, active, training, calls>>

-----------------------------------------------------------------------------
ClientStep == \E s \in Sessions : RecordCommit(s) \/ DiscardLastCommit(s)

SettingsCall ==
  \/ \E on \in BOOLEAN : Switch(on)
  \/ Reset \/ Configure
  \/ \E c \in stored : DeletePending(c)
  \/ \E selected \in SUBSET stored : ExcludeUnselected(selected, stored)

SettingsStep == ClearQueue \/ Erase \/ EraseFails \/ PublishErased

TrainingStep ==
  \/ \E base \in Bases : Identify(base)
  \/ \E parent \in 0..Len(runs), base \in Bases, chosen \in SUBSET stored :
       ReadRecords(parent, base, chosen)
  \/ Complete

CountStep == \E p \in DOMAIN counting : CountNow(p) \/ PublishCount(p)

\* The count is being published by one that has changed what it counts.
Publishing ==
  {p \in DOMAIN counting : counting[p] # NotCounting}
    \union (IF worker.at = "publish" THEN {"worker"} ELSE {})
    \union (IF settings.at = "publish" THEN {"reset"} ELSE {})

Steps ==
  \/ Start \/ Kill \/ Stop \/ Joined \/ Tick
  \/ ClientStep \/ WorkerStep \/ SettingsCall \/ SettingsStep \/ TrainingStep \/ CountStep

Watched(A) == A /\ disturbed' = (up' /\ (disturbed \/ Cardinality(Publishing') > 1))

Next == Watched(Steps)

Spec == Init /\ [][Next]_vars

\* Time passes, and the threads run.
LiveSpec ==
  /\ Spec
  /\ WF_vars(Watched(Tick))
  /\ WF_vars(Watched(WorkerStep))
  /\ WF_vars(Watched(SettingsStep))
=============================================================================
