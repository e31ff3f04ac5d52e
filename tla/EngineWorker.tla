---------------------------- MODULE EngineWorker ----------------------------
(***************************************************************************)
(* The backend client of one text service (frontend/src/engine):           *)
(*                                                                         *)
(*   - EngineWorker, called on the owning UI thread, and its Impl, whose   *)
(*     pump sends one request at a time from a thread of its own;          *)
(*   - PipeEngine, the transport: one pipe to the service, connected when  *)
(*     a request needs it and dropped when one fails;                      *)
(*   - UiDispatcher, which brings results back to the UI thread in order.  *)
(*                                                                         *)
(* The service process is the environment: it may end and start again at   *)
(* any time, and while it lives it may answer.  A new one begins in        *)
(* Chinese mode (g_input_mode) and knows nothing of earlier connections.   *)
(***************************************************************************)
EXTENDS Integers, Sequences, Queues

CONSTANTS
  Groups,      \* the epochs of compositions
  Uses         \* the uses that are explored, see Use

\* One use: which calls the text service makes and how many, and how often the
\* service process starts (the two bounds).
Use == [among : SUBSET STRING, left : Nat, starts : Nat]

ASSUME UsesAssumption == Uses \subseteq Use

VARIABLES
  requests,    \* predictions: their group, and the result told to the text service
  ui,          \* EngineWorker::UiState
  owner,       \* whether the UI thread still has the worker
  untold,      \* superseded predictions that submit has still to tell of
  inbox,       \* UiDispatcher::tasks_
  commits,     \* next_commit_
  jobs,        \* jobs_
  wake,        \* wake_ is signalled
  stopping,    \* stopping_
  retryPosted, \* retry_posted_
  pump,        \* where the pump is
  job,         \* the job it runs
  memory,      \* what it remembers of the last commit, see NoCommit
  pipe,        \* the service process the pipe is connected to, 0 for none
  aborted,     \* PipeEngine::aborted_
  cancelled,   \* the pending read or write is cancelled
  service,     \* the service process
  discards,    \* commits asked to be discarded, and what the service discarded
  calls        \* the calls still to be made, a Use

textService == <<requests, ui, owner, untold, commits>>
worker      == <<jobs, wake, stopping, retryPosted, pump, job, memory>>
transport   == <<pipe, aborted, cancelled>>
outside     == <<service, discards, calls>>
vars        == <<textService, inbox, worker, transport, outside>>

\* The abstract backend: its requests are those the text service made.
Backend == INSTANCE ConversionBackend WITH Groups <- Groups, requests <- requests

Flipped(mode) == IF mode = "Chinese" THEN "English" ELSE "Chinese"

\* recorded and through: the last commit recorded and its number on the wire (0
\* if it was not sent); wire: numbers used on the wire.
NoCommit == [recorded |-> 0, through |-> 0, wire |-> 0]

\* latest: the last commit recorded through the connection, by its number on the
\* wire (handle_client); commit is whose number that is.
NoLatest == [wire |-> 0, commit |-> 0]

-----------------------------------------------------------------------------
(***************************************************************************)
(* Jobs.  about: the number of the prediction or commit, or the revision   *)
(* of the mode that is asked for.                                          *)
(***************************************************************************)
Job(kind, group, about) == [kind |-> kind, group |-> group, about |-> about]
NoJob == Job("none", 0, 0)

\* A queued job of these kinds is replaced by the next one of its group.
Coalesced == {"ready", "query", "prefill", "predict"}

\* Mutant: a prediction of any composition is replaced.
ReplacesAnyGroup(new, old) == new.kind \in Coalesced /\ old.kind = new.kind

Replaces(new, old) ==
  new.kind \in Coalesced /\ old.kind = new.kind /\ old.group = new.group

Replaced(new) == {jobs[i] : i \in {k \in DOMAIN jobs : Replaces(new, jobs[k])}}

\* Mutant: what is replaced is not told.
SubmitUntold(new) ==
  IF stopping THEN UNCHANGED <<jobs, wake, untold>>
  ELSE /\ jobs' = Append(Without(jobs, Replaced(new)), new)
       /\ wake' = TRUE
       /\ UNCHANGED untold

\* Mutant: the pump is not woken.
SubmitUnsignalled(new) ==
  /\ IF stopping THEN UNCHANGED <<jobs, untold>>
     ELSE /\ jobs' = Append(Without(jobs, Replaced(new)), new)
          /\ untold' = IF new.kind # "predict" THEN {} ELSE {old.about : old \in Replaced(new)}
  /\ UNCHANGED wake

Submit(new) ==
  IF stopping THEN UNCHANGED <<jobs, wake, untold>>
  ELSE /\ jobs' = Append(Without(jobs, Replaced(new)), new)
       /\ wake' = TRUE
       /\ untold' = IF new.kind # "predict" THEN {} ELSE {old.about : old \in Replaced(new)}

(***************************************************************************)
(* Tasks for the UI thread.  The dispatcher drops them once it is closed.  *)
(***************************************************************************)
StateTask(p)          == [task |-> "state", value |-> IF p = 0 THEN "Unavailable" ELSE "Connected",
                          about |-> 0]
ModeTask(mode, about) == [task |-> "mode", value |-> mode, about |-> about]
ResultTask(s, result) == [task |-> "result", value |-> result, about |-> s]
RetryTask             == [task |-> "retry", value |-> "", about |-> 0]

Post(tasks) == inbox' = IF owner = "running" THEN inbox \o tasks ELSE inbox

-----------------------------------------------------------------------------
(***************************************************************************)
(* The text service, on the UI thread                                      *)
(***************************************************************************)
\* submit tells of what it replaced after it has left the lock.
UiFree == owner = "running" /\ untold = {}

Call(operation) ==
  /\ operation \in calls.among
  /\ UiFree
  /\ calls.left > 0
  /\ calls' = [calls EXCEPT !.left = @ - 1]
  /\ UNCHANGED <<owner, inbox, stopping, retryPosted, pump, job, memory, transport,
                 service, discards>>

RefreshInputMode ==
  /\ Call("refresh")
  /\ Submit(Job("query", 0, ui.revision))
  /\ UNCHANGED <<requests, ui, commits>>

\* The mode changes at once; the service is told later.
ToggleInputMode ==
  /\ Call("toggle")
  /\ ui' = [ui EXCEPT !.mode = Flipped(@), !.revision = @ + 1]
  /\ Submit(Job("toggle", 0, ui.revision + 1))
  /\ UNCHANGED <<requests, commits>>

\* Called for a reading, which is only typed in Chinese mode.
Ready ==
  /\ Call("ready")
  /\ ui.mode = "Chinese"
  /\ Submit(Job("ready", 0, 0))
  /\ UNCHANGED <<requests, ui, commits>>

Prefill ==
  /\ Call("prefill")
  /\ Submit(Job("prefill", 0, 0))
  /\ UNCHANGED <<requests, ui, commits>>

\* A composition begins in Chinese mode, and may go on in the other.
Predict(group) ==
  /\ Call("predict")
  /\ ui.mode = "Chinese" \/ \E s \in DOMAIN requests : requests[s].group = group
  /\ requests' = Append(requests, [group |-> group, status |-> "pending"])
  /\ Submit(Job("predict", group, Len(requests) + 1))
  /\ UNCHANGED <<ui, commits>>

RecordCommit ==
  /\ Call("record")
  /\ commits' = commits + 1
  /\ Submit(Job("record", 0, commits + 1))
  /\ UNCHANGED <<requests, ui>>

\* The commit to discard may no longer be the last one: the text service asks
\* from an edit that may have waited.
DiscardCommit ==
  /\ Call("discard")
  /\ \E token \in 1..commits : Submit(Job("discard", 0, token))
  /\ UNCHANGED <<requests, ui, commits>>

TellSuperseded ==
  /\ owner = "running" /\ untold # {}
  /\ \E s \in untold : untold' = untold \ {s} /\ Post(<<ResultTask(s, "superseded")>>)
  /\ UNCHANGED <<requests, ui, owner, commits, worker, transport, outside>>

Take(task) ==
  /\ UiFree
  /\ inbox # <<>> /\ Head(inbox).task = task
  /\ inbox' = Tail(inbox)
  /\ UNCHANGED <<owner, commits, stopping, pump, job, memory, transport, outside>>

TakeState ==
  /\ Take("state")
  /\ ui' = [ui EXCEPT !.backend = Head(inbox).value]
  /\ UNCHANGED <<requests, untold, jobs, wake, retryPosted>>

\* Mutant: the answer to an old question changes the mode.
TakeAnyMode ==
  /\ Take("mode")
  /\ ui' = [ui EXCEPT !.mode = Head(inbox).value]
  /\ UNCHANGED <<requests, untold, jobs, wake, retryPosted>>

\* The mode was changed here after it was asked for: the answer is too old.
TakeMode ==
  /\ Take("mode")
  /\ ui' = IF Head(inbox).about = ui.revision THEN [ui EXCEPT !.mode = Head(inbox).value] ELSE ui
  /\ UNCHANGED <<requests, untold, jobs, wake, retryPosted>>

\* Without a backend there is no Bopomofo engine: English, at once.
TakeResult ==
  /\ Take("result")
  /\ requests' = [requests EXCEPT ![Head(inbox).about].status = Head(inbox).value]
  /\ ui' = IF Head(inbox).value = "lost" /\ ui.mode # "English"
           THEN [ui EXCEPT !.mode = "English", !.revision = @ + 1] ELSE ui
  /\ UNCHANGED <<untold, jobs, wake, retryPosted>>

\* Mutant: the next probe is not allowed again.
TakeRetryOnce ==
  /\ Take("retry")
  /\ Submit(Job("query", 0, ui.revision))
  /\ UNCHANGED <<requests, ui, retryPosted>>

TakeRetry ==
  /\ Take("retry")
  /\ retryPosted' = FALSE
  /\ Submit(Job("query", 0, ui.revision))
  /\ UNCHANGED <<requests, ui>>

\* stop_engine_worker: the dispatcher is closed, then the worker destroyed.
Close ==
  /\ "stop" \in calls.among
  /\ UiFree
  /\ owner' = "closing"
  /\ inbox' = <<>>
  /\ UNCHANGED <<requests, ui, untold, commits, worker, transport, outside>>

\* There is an engine to abort only between its creation and the pump's end.
Destroy ==
  /\ owner = "closing"
  /\ owner' = "joining"
  /\ stopping' = TRUE
  /\ jobs' = <<>>
  /\ aborted' = (pump \notin {"starting", "ended"})
  /\ cancelled' = (pump = "io")
  /\ wake' = TRUE
  /\ UNCHANGED <<requests, ui, untold, commits, inbox, retryPosted, pump, job, memory,
                 pipe, outside>>

Join ==
  /\ owner = "joining" /\ pump = "ended"
  /\ owner' = "gone"
  /\ UNCHANGED <<requests, ui, untold, commits, inbox, worker, transport, outside>>

-----------------------------------------------------------------------------
(***************************************************************************)
(* The pump, on the worker's thread                                        *)
(***************************************************************************)
Start ==
  /\ pump = "starting"
  /\ pump' = "check"
  /\ UNCHANGED <<textService, inbox, jobs, wake, stopping, retryPosted, job, memory,
                 transport, outside>>

\* The next job; without one it sleeps, and while disconnected only for 500 ms.
Check ==
  /\ pump = "check"
  /\ \/ /\ stopping
        /\ pump' = "ended" /\ jobs' = <<>> /\ pipe' = 0
        /\ UNCHANGED job
     \/ /\ ~stopping /\ jobs # <<>>
        /\ pump' = "begin" /\ job' = Head(jobs) /\ jobs' = Tail(jobs)
        /\ UNCHANGED pipe
     \/ /\ ~stopping /\ jobs = <<>>
        /\ pump' = IF pipe = 0 /\ ~retryPosted THEN "doze" ELSE "sleep"
        /\ UNCHANGED <<jobs, job, pipe>>
  /\ UNCHANGED <<textService, inbox, wake, stopping, retryPosted, memory, aborted, cancelled,
                 outside>>

Waken ==
  /\ pump \in {"doze", "sleep"} /\ wake
  /\ pump' = "check" /\ wake' = FALSE
  /\ UNCHANGED <<textService, inbox, jobs, stopping, retryPosted, job, memory, transport, outside>>

\* The question is asked on the UI thread, with the revision of that time.
Probe ==
  /\ pump = "doze"
  /\ pump' = "check" /\ retryPosted' = TRUE
  /\ Post(<<RetryTask>>)
  /\ UNCHANGED <<textService, jobs, wake, stopping, job, memory, transport, outside>>

\* What the text service is told of a job: of these three the connection too.
Told(p, answer) ==
  CASE job.kind \in {"query", "toggle"} -> <<StateTask(p), ModeTask(answer, job.about)>>
    [] job.kind = "predict"             -> <<StateTask(p), ResultTask(job.about, answer)>>
    [] OTHER                            -> <<>>

Failure == IF job.kind = "predict" THEN "lost" ELSE "English"

\* A commit is forgotten for the next one even if that one is not sent.
Remembered == IF job.kind = "record" THEN [memory EXCEPT !.recorded = job.about, !.through = 0]
              ELSE memory

\* Mutant: whichever commit it is, the last one sent is discarded.
NeedlessUnsent == job.kind = "discard" /\ memory.through = 0

\* Only the last commit recorded can be discarded, if it was sent.
Needless == job.kind = "discard" /\ ~(job.about = memory.recorded /\ memory.through # 0)

Skip ==
  /\ pump = "begin" /\ Needless
  /\ pump' = "check"
  /\ UNCHANGED <<textService, inbox, jobs, wake, stopping, retryPosted, job, memory,
                 transport, outside>>

Reachable == ~aborted /\ (pipe # 0 \/ service.up)

\* ensure_pipe
Connect ==
  /\ pump = "begin" /\ ~Needless /\ Reachable
  /\ pump' = "send"
  /\ memory' = Remembered
  /\ IF pipe # 0 THEN UNCHANGED <<pipe, service>>
     ELSE pipe' = service.id /\ service' = [service EXCEPT !.latest = NoLatest]
  /\ UNCHANGED <<textService, inbox, jobs, wake, stopping, retryPosted, job, aborted, cancelled,
                 discards, calls>>

\* The service is not there, or its pipe is busy with another client.
CannotConnect ==
  /\ pump = "begin" /\ ~Needless
  /\ aborted \/ pipe = 0
  /\ pump' = "check"
  /\ memory' = Remembered
  /\ Post(Told(pipe, Failure))
  /\ UNCHANGED <<textService, jobs, wake, stopping, retryPosted, job, transport, outside>>

\* Mutant: abort cancels only what is under way.
TransferUnaborted ==
  /\ pump = "send"
  /\ pump' = "io"
  /\ cancelled' = FALSE
  /\ memory' = IF job.kind = "record" THEN [memory EXCEPT !.wire = @ + 1] ELSE memory
  /\ UNCHANGED <<textService, inbox, jobs, wake, stopping, retryPosted, job, pipe, aborted, outside>>

\* A read or write begun after abort is cancelled as well.
Transfer ==
  /\ pump = "send"
  /\ pump' = "io"
  /\ cancelled' = aborted
  /\ memory' = IF job.kind = "record" THEN [memory EXCEPT !.wire = @ + 1] ELSE memory
  /\ UNCHANGED <<textService, inbox, jobs, wake, stopping, retryPosted, job, pipe, aborted, outside>>

Alive == service.up /\ service.id = pipe

\* What the service does (handle_client), and the answer if there is one.
Served ==
  CASE job.kind = "toggle"  -> [service EXCEPT !.mode = Flipped(@)]
    [] job.kind = "record"  ->
         [service EXCEPT !.latest = [wire |-> memory.wire, commit |-> job.about]]
    [] OTHER -> service

Success == IF job.kind = "predict" THEN "converted" ELSE Served.mode

Discarded ==
  IF job.kind = "discard" /\ service.latest.wire = memory.through
  THEN {<<job.about, service.latest.commit>>} ELSE {}

Complete ==
  /\ pump = "io" /\ Alive
  /\ pump' = "check"
  /\ service' = Served
  /\ discards' = discards \union Discarded
  /\ memory' = IF job.kind = "record" THEN [memory EXCEPT !.through = memory.wire] ELSE memory
  /\ cancelled' = FALSE
  /\ Post(Told(pipe, Success))
  /\ UNCHANGED <<textService, jobs, wake, stopping, retryPosted, job, pipe, aborted, calls>>

\* The pipe broke, or abort cancelled the transfer: disconnect.
Fail ==
  /\ pump = "io" /\ (cancelled \/ ~Alive)
  /\ pump' = "check"
  /\ pipe' = 0
  /\ cancelled' = FALSE
  /\ Post(Told(0, Failure))
  /\ UNCHANGED <<textService, jobs, wake, stopping, retryPosted, job, memory, aborted, outside>>

-----------------------------------------------------------------------------
(***************************************************************************)
(* The service process                                                     *)
(***************************************************************************)
ServiceStarts ==
  /\ ~service.up /\ calls.starts > 0
  /\ calls' = [calls EXCEPT !.starts = @ - 1]
  /\ service' = [up |-> TRUE, id |-> service.id + 1, mode |-> "Chinese", latest |-> NoLatest]
  /\ UNCHANGED <<textService, inbox, worker, transport, discards>>

ServiceEnds ==
  /\ service.up
  /\ service' = [service EXCEPT !.up = FALSE]
  /\ UNCHANGED <<textService, inbox, worker, transport, discards, calls>>

-----------------------------------------------------------------------------
Init ==
  /\ requests = <<>>
  /\ ui = [mode |-> "English", revision |-> 0, backend |-> "Connected"]
  /\ owner = "running" /\ untold = {} /\ inbox = <<>> /\ commits = 0
  \* start_engine_worker asks for the mode at once.
  /\ jobs = <<Job("query", 0, 0)>> /\ wake = TRUE
  /\ stopping = FALSE /\ retryPosted = FALSE
  /\ pump = "starting" /\ job = NoJob /\ memory = NoCommit
  /\ pipe = 0 /\ aborted = FALSE /\ cancelled = FALSE
  /\ service = [up |-> FALSE, id |-> 0, mode |-> "Chinese", latest |-> NoLatest]
  /\ discards = {}
  /\ calls \in Uses

UiCall ==
  \/ RefreshInputMode \/ ToggleInputMode \/ Ready \/ Prefill
  \/ \E group \in Groups : Predict(group)
  \/ RecordCommit \/ DiscardCommit \/ Close

UiStep == TellSuperseded \/ TakeState \/ TakeMode \/ TakeResult \/ TakeRetry \/ Destroy \/ Join

PumpStep ==
  Start \/ Check \/ Waken \/ Probe \/ Skip \/ Connect \/ CannotConnect \/ Transfer \/ Fail

Next == UiCall \/ UiStep \/ PumpStep \/ Complete \/ ServiceStarts \/ ServiceEnds

Spec == Init /\ [][Next]_vars

\* Both threads go on.  That the service answers, ends or starts is not assumed.
LiveSpec == Spec /\ WF_vars(UiStep) /\ WF_vars(PumpStep)
=============================================================================
