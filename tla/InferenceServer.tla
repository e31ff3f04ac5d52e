-------------------------- MODULE InferenceServer ---------------------------
(***************************************************************************)
(* The inference side of the service (prediction_pipe_server,              *)
(* gpu_activity_lease): the connections share few inference contexts, and  *)
(* everything that touches them, the core or the lease of the GPU clock    *)
(* runs as a job on one inference thread.  That thread waits while it asks *)
(* a boost process; jobs queue up behind it, the timer's among them.       *)
(***************************************************************************)
EXTENDS GpuBoostWorker, Sequences, FiniteSets, SequencesExt, Queues

CONSTANTS
  Clients,       \* the connections, each made once
  Capacity,      \* SessionLru::capacity
  IdleTimeout,   \* idle_timeout, in ticks
  RetryDelay,    \* retry_delay, in ticks
  Failures,      \* max_release_attempts
  Uses           \* the uses that are explored, see Use

ASSUME CapacityAssumption == Capacity \in Nat \ {0}
ASSUME TimesAssumption    == {IdleTimeout, RetryDelay, Failures} \subseteq Nat \ {0}

\* One use: whether the boost is enabled at first, the calls that are made and
\* how many, and how often the clock's process may let the service wait too long
\* (the bounds).
ASSUME UsesAssumption ==
  \A use \in Uses :
    /\ use.boost \in BOOLEAN
    /\ use.among \subseteq STRING /\ {use.left, use.late} \subseteq Nat

VARIABLES
  clients,     \* gone, reading a command, or waiting for the job of one
  jobs,        \* the jobs posted to inference_
  thread,      \* what the inference thread does
  core,        \* core_: the version that is loaded
  recency,     \* recency_ and sessions_: the client and the core of each context
  idle,        \* idle_: the core of each context nobody has
  lease,       \* the State of the GpuActivityLease
  failed,      \* the processes whose WorkerClient has failed_
  initialized, \* boost_backend_initialized_
  reload,      \* the call of replace_core under way
  accepting,   \* accepting_reloads_
  calls        \* the calls still to be made

contexts == <<core, recency, idle>>
service  == <<clients, jobs, thread, contexts, lease, failed, initialized, reload, accepting, calls>>
vars     == <<up, boost, service>>

\* A job of the inference thread.
Job(kind, client, on, generation) ==
  [kind |-> kind, client |-> client, on |-> on, generation |-> generation]

NoJob == Job("none", 0, FALSE, 0)

\* at: free, working on the job itself, or waiting in a call of the worker w;
\* next: where it goes on.
Doing(at, job, w, next) == [at |-> at, job |-> job, w |-> w, next |-> next]
Free                    == Doing("free", NoJob, 0, "free")
Goes(at)                == [thread EXCEPT !.at = at]

\* backend: the process that holds the boost, 0 for none; timer: the ticks to
\* its expiry; deadline, retry: ticks that are left.
NoLease(enabled) ==
  [backend |-> 0, active |-> FALSE, enabled |-> enabled,
   releasing |-> FALSE, failures |-> 0, retry |-> 0, deadline |-> 0,
   armed |-> FALSE, timer |-> 0, generation |-> 0]

NotLaunched == {w \in Workers : processes[w].at = "none"}

Called(call) ==
  /\ up
  /\ call \in calls.among /\ calls.left > 0
  /\ calls' = [calls EXCEPT !.left = @ - 1]

Post(job) == jobs' = Append(jobs, job)

-----------------------------------------------------------------------------
Init ==
  /\ \E use \in Uses :
       /\ lease = NoLease(use.boost)
       /\ initialized = use.boost
       /\ thread = IF use.boost THEN Doing("make", Job("enable", 0, TRUE, 0), 0, "job") ELSE Free
       /\ calls = [among |-> use.among, left |-> use.left, late |-> use.late]
  /\ up = TRUE
  /\ GpuInit
  /\ processes = [w \in Workers |-> NoProcess]
  /\ clients = [c \in Clients |-> "reading"]
  /\ jobs = <<>>
  /\ core = 1
  /\ recency = <<>>
  /\ idle = <<>>
  /\ failed = {}
  /\ reload = "no"
  /\ accepting = TRUE

-----------------------------------------------------------------------------
(***************************************************************************)
(* The connections (handle_client, ClientSession).  Each has one command   *)
(* under way at most: the next is read when its job has been awaited.      *)
(***************************************************************************)
Request(c, kind) ==
  /\ accepting
  /\ Called(kind)
  /\ clients[c] = "reading"
  /\ clients' = [clients EXCEPT ![c] = "waiting"]
  /\ Post(Job(kind, c, FALSE, 0))
  /\ UNCHANGED <<up, boost, thread, contexts, lease, failed, initialized, reload, accepting>>

\* Ready renews the lease only; Prefill and Predict need a context.
Ready(c) == Request(c, "ready")
Use(c)   == Request(c, "use")

\* Mutant: the connection ends without giving its context back.
LeavesQuietly(c) == UNCHANGED jobs
Leaves(c)        == Post(Job("erase", c, FALSE, 0))

\* The pipe is broken: ~ClientSession.
Disconnect(c) ==
  /\ accepting
  /\ Called("disconnect")
  /\ clients[c] = "reading"
  /\ clients' = [clients EXCEPT ![c] = "gone"]
  /\ Leaves(c)
  /\ UNCHANGED <<up, boost, thread, contexts, lease, failed, initialized, reload, accepting>>

(***************************************************************************)
(* The settings: set_gpu_boost_enabled and replace_core.                   *)
(***************************************************************************)
Enable(on) ==
  /\ Called("enable")
  /\ Post(Job("enable", 0, on, 0))
  /\ UNCHANGED <<up, boost, clients, thread, contexts, lease, failed, initialized, reload, accepting>>

Reload ==
  /\ Called("reload")
  /\ accepting /\ reload = "no"
  /\ reload' = "waiting"
  /\ Post(Job("replace", 0, FALSE, 0))
  /\ UNCHANGED <<up, boost, clients, thread, contexts, lease, failed, initialized, accepting>>

\* The result is there, or the server has stopped meanwhile: the job stays.
ReloadReturns ==
  /\ up
  /\ \/ reload = "done"
     \/ reload = "waiting" /\ ~accepting
  /\ reload' = "no"
  /\ UNCHANGED <<up, boost, clients, jobs, thread, contexts, lease, failed, initialized,
                 accepting, calls>>

-----------------------------------------------------------------------------
(***************************************************************************)
(* The server stops: the connections stay as they are, the last job gives  *)
(* the clock back, and the inference thread is joined.                     *)
(***************************************************************************)
Stop ==
  /\ accepting
  /\ Called("stop")
  /\ accepting' = FALSE
  /\ Post(Job("release", 0, FALSE, 0))
  /\ UNCHANGED <<up, boost, clients, thread, contexts, lease, failed, initialized, reload>>

Exit ==
  /\ up /\ ~accepting
  /\ jobs = <<>> /\ thread.at = "free" /\ ~lease.armed
  /\ up' = FALSE
  /\ UNCHANGED <<boost, service>>

Kill ==
  /\ Called("kill")
  /\ up' = FALSE
  /\ UNCHANGED <<boost, clients, jobs, thread, contexts, lease, failed, initialized, reload,
                 accepting>>

(***************************************************************************)
(* Time, and the timer of the lease.                                       *)
(***************************************************************************)
Less(ticks) == IF ticks = 0 THEN 0 ELSE ticks - 1

Tick ==
  /\ up
  /\ lease.deadline + lease.retry + lease.timer > 0
  /\ lease' = [lease EXCEPT !.deadline = Less(@), !.retry = Less(@), !.timer = Less(@)]
  /\ UNCHANGED <<up, boost, clients, jobs, thread, contexts, failed, initialized, reload,
                 accepting, calls>>

\* The handler is queued behind the jobs that wait.
Expire ==
  /\ up
  /\ lease.armed /\ lease.timer = 0
  /\ lease' = [lease EXCEPT !.armed = FALSE]
  /\ Post(Job("timer", 0, FALSE, lease.generation))
  /\ UNCHANGED <<up, boost, clients, thread, contexts, failed, initialized, reload,
                 accepting, calls>>

-----------------------------------------------------------------------------
(***************************************************************************)
(* GpuActivityLease, on the inference thread.                              *)
(***************************************************************************)
Rest == <<up, clients, contexts, initialized, reload, accepting>>

\* WorkerClient::set, unless it has failed before.
Ask(w, on) == IF w \in failed THEN UNCHANGED processes ELSE Asked(w, on)

\* Mutant: only the reply ends the wait, the process does not.
NeverGone(w) == w \in failed
Gone(w)      == w \in failed \/ processes[w].at = "ended"

\* wait_reply ends with a reply, or with none: the process has ended or has not
\* answered in time (a bound says how often).
Answer(w, result) ==
  /\ UNCHANGED <<mutex, clock>>
  /\ \/ /\ w \notin failed
        /\ processes[w].at # "ended" /\ processes[w].reply = result
        /\ ReplyTaken(w)
        /\ UNCHANGED <<failed, calls>>
     \/ /\ result = "unavailable"
        /\ \/ /\ Gone(w)
              /\ UNCHANGED calls
           \/ /\ calls.late > 0 /\ processes[w].reply = "none"
              /\ calls' = [calls EXCEPT !.late = @ - 1]
        /\ failed' = failed \union {w}
        /\ Stopped(w)

Armed(l) == [l EXCEPT !.armed = TRUE, !.timer = l.deadline]

\* activate
Renewable == lease.enabled /\ lease.backend # 0 /\ ~lease.releasing /\ lease.retry = 0

\* The deadline moves; an inactive lease asks for the clock.
Activate(job) ==
  /\ lease' = IF Renewable THEN [lease EXCEPT !.deadline = IdleTimeout] ELSE lease
  /\ IF Renewable /\ ~lease.active
     THEN /\ Ask(lease.backend, TRUE)
          /\ thread' = Doing("on", job, lease.backend, "job")
     ELSE /\ UNCHANGED processes
          /\ thread' = Doing("job", job, 0, "job")

Activated ==
  /\ up /\ thread.at = "on"
  /\ Answer(thread.w, "success")
  /\ lease' = Armed([lease EXCEPT !.active = TRUE])
  /\ thread' = Goes("job")
  /\ UNCHANGED <<Rest, jobs>>

NotYet ==
  /\ up /\ thread.at = "on"
  /\ Answer(thread.w, "retry_later")
  /\ lease' = [lease EXCEPT !.retry = RetryDelay]
  /\ thread' = Goes("job")
  /\ UNCHANGED <<Rest, jobs>>

Unavailable ==
  /\ up /\ thread.at = "on"
  /\ Answer(thread.w, "unavailable")
  /\ thread' = Goes("reset")
  /\ UNCHANGED <<Rest, jobs, lease>>

(***************************************************************************)
(* release: the lease has been idle.  Until it is restored nothing raises  *)
(* the clock again; after Failures refusals that stays so.                 *)
(***************************************************************************)
Current(job)  == job.generation = lease.generation

TimerExpired(job) ==
  /\ IF Current(job) /\ lease.deadline = 0
     THEN /\ lease' = [lease EXCEPT !.releasing = TRUE]
          /\ Ask(lease.backend, FALSE)
          /\ thread' = Doing("off", job, lease.backend, "free")
     ELSE /\ lease' = IF Current(job) THEN Armed(lease) ELSE lease
          /\ UNCHANGED processes
          /\ thread' = Free

Retried(l) == IF l.failures < Failures THEN Armed([l EXCEPT !.deadline = RetryDelay]) ELSE l

Released ==
  /\ up /\ thread.at = "off"
  /\ Answer(thread.w, "success")
  /\ lease' = [lease EXCEPT !.active = FALSE, !.releasing = FALSE, !.failures = 0]
  /\ thread' = Free
  /\ UNCHANGED <<Rest, jobs>>

NotReleased ==
  /\ up /\ thread.at = "off"
  /\ \E result \in {"retry_later", "unavailable"} : Answer(thread.w, result)
  /\ lease' = Retried([lease EXCEPT !.failures = @ + 1])
  /\ thread' = Free
  /\ UNCHANGED <<Rest, jobs>>

(***************************************************************************)
(* reset: the backend is given up, an active one first asked to lower the  *)
(* clock.  ~WorkerClient tells the process to end and waits, not for long. *)
(***************************************************************************)
Fresh(l) ==
  [l EXCEPT !.backend = 0, !.active = FALSE, !.releasing = FALSE, !.failures = 0, !.retry = 0,
            !.armed = FALSE, !.timer = 0, !.generation = @ + 1]

Reset ==
  /\ up /\ thread.at = "reset"
  /\ lease' = Fresh(lease)
  /\ IF lease.active THEN Ask(lease.backend, FALSE) ELSE UNCHANGED processes
  /\ thread' = [thread EXCEPT !.w = lease.backend,
                  !.at = IF lease.backend = 0 THEN thread.next
                         ELSE IF lease.active THEN "lowering" ELSE "close"]
  /\ UNCHANGED <<Rest, mutex, clock, jobs, failed, calls>>

\* Whatever it answers.
Lowering ==
  /\ up /\ thread.at = "lowering"
  /\ \E result \in {"success", "retry_later", "unavailable"} : Answer(thread.w, result)
  /\ thread' = Goes("close")
  /\ UNCHANGED <<Rest, jobs, lease>>

\* Mutant: the process is left alone with its duty.
Abandoned(w) == UNCHANGED processes
Dismissed(w) == Stopped(w)

Close ==
  /\ up /\ thread.at = "close"
  /\ Dismissed(thread.w)
  /\ thread' = Goes("closing")
  /\ UNCHANGED <<Rest, mutex, clock, jobs, failed, lease, calls>>

\* The process has ended, or has not in time.
Closed ==
  /\ up /\ thread.at = "closing"
  /\ \/ processes[thread.w].at = "ended" /\ UNCHANGED calls
     \/ calls.late > 0 /\ calls' = [calls EXCEPT !.late = @ - 1]
  /\ thread' = Goes(thread.next)
  /\ UNCHANGED <<Rest, boost, jobs, failed, lease>>

(***************************************************************************)
(* make_gpu_latency_boost: the GPU of the core may have no boost; else its *)
(* process is launched and has to answer.                                  *)
(***************************************************************************)
NoBoost ==
  /\ up /\ thread.at = "make"
  /\ lease' = Fresh(lease)
  /\ thread' = Goes("job")
  /\ UNCHANGED <<Rest, boost, jobs, failed, calls>>

Launch ==
  /\ up /\ thread.at = "make"
  /\ \E w \in NotLaunched :
       /\ \A v \in NotLaunched : w <= v
       /\ Launched(w)
       /\ thread' = [thread EXCEPT !.at = "launching", !.w = w]
  /\ UNCHANGED <<Rest, mutex, clock, jobs, failed, lease, calls>>

Boosted ==
  /\ up /\ thread.at = "launching"
  /\ Answer(thread.w, "success")
  /\ lease' = [Fresh(lease) EXCEPT !.backend = thread.w]
  /\ thread' = Goes("job")
  /\ UNCHANGED <<Rest, jobs>>

NotBoosted ==
  /\ up /\ thread.at = "launching"
  /\ Answer(thread.w, "unavailable")
  /\ lease' = Fresh(lease)
  /\ thread' = Goes("job")
  /\ UNCHANGED <<Rest, jobs>>

-----------------------------------------------------------------------------
(***************************************************************************)
(* The inference thread takes the next job.                                *)
(***************************************************************************)
Take(kind) ==
  /\ up /\ thread.at = "free"
  /\ jobs # <<>> /\ Head(jobs).kind = kind
  /\ jobs' = Tail(jobs)
  /\ UNCHANGED <<up, mutex, clock, clients, failed, reload, accepting, calls>>

\* ready, and the beginning of acquire
TakeCommand ==
  /\ \E kind \in {"ready", "use"} : Take(kind)
  /\ Activate(Head(jobs))
  /\ UNCHANGED <<contexts, initialized>>

TakeTimer ==
  /\ Take("timer")
  /\ TimerExpired(Head(jobs))
  /\ UNCHANGED <<contexts, initialized>>

TakeRelease ==
  /\ Take("release")
  /\ thread' = Doing("reset", Head(jobs), 0, "job")
  /\ UNCHANGED <<processes, contexts, lease, initialized>>

TakeEnable ==
  /\ Take("enable")
  /\ lease' = [lease EXCEPT !.enabled = Head(jobs).on]
  /\ initialized' = (initialized \/ Head(jobs).on)
  /\ thread' = Doing(IF initialized' = initialized THEN "job" ELSE "make", Head(jobs), 0, "job")
  /\ UNCHANGED <<processes, contexts>>

ForgetContexts == recency' = <<>> /\ idle' = <<>>

\* The new core is loaded and the boost is made again for its GPU.
TakeReplace ==
  /\ Take("replace")
  /\ core' = core + 1
  /\ ForgetContexts
  /\ initialized' = lease.enabled
  /\ thread' = Doing("reset", Head(jobs), 0, IF lease.enabled THEN "make" ELSE "job")
  /\ UNCHANGED <<processes, lease>>

\* The new core cannot be loaded: nothing has changed.
TakeReplaceFails ==
  /\ Take("replace")
  /\ thread' = Doing("job", Head(jobs), 0, "job")
  /\ UNCHANGED <<processes, contexts, lease, initialized>>

Holders == {recency[i].client : i \in DOMAIN recency}

GiveBack(c) ==
  /\ recency' = Without(recency, {e \in ToSet(recency) : e.client = c})
  /\ idle' = idle \o [i \in 1..Cardinality({c} \intersect Holders) |->
                       (CHOOSE e \in ToSet(recency) : e.client = c).core]

TakeErase ==
  /\ Take("erase")
  /\ GiveBack(Head(jobs).client)
  /\ thread' = Free
  /\ UNCHANGED <<processes, core, lease, initialized>>

(***************************************************************************)
(* acquire: the client's own context, one that is idle, a new one, or that *)
(* of the client which has used its own least recently.                    *)
(***************************************************************************)
Entry(c, of) == [client |-> c, core |-> of]

Acquire(c) ==
  IF c \in Holders
  THEN LET own == CHOOSE e \in ToSet(recency) : e.client = c
       IN recency' = <<own>> \o Without(recency, {own}) /\ UNCHANGED idle
  ELSE IF idle # <<>>
  THEN recency' = <<Entry(c, Last(idle))>> \o recency /\ idle' = Front(idle)
  ELSE IF Len(recency) < Capacity
  THEN recency' = <<Entry(c, core)>> \o recency /\ UNCHANGED idle
  ELSE recency' = <<Entry(c, Last(recency).core)>> \o Front(recency) /\ UNCHANGED idle

Working(kind) ==
  /\ up /\ thread.at = "job" /\ thread.job.kind = kind
  /\ thread' = Free
  /\ UNCHANGED <<up, boost, jobs, core, lease, failed, initialized, accepting, calls>>

\* The handler goes on when its job is done.
HandlerGoesOn == clients' = [clients EXCEPT ![thread.job.client] = "reading"]

FinishReady == Working("ready") /\ HandlerGoesOn /\ UNCHANGED <<recency, idle, reload>>
FinishUse   == Working("use") /\ Acquire(thread.job.client) /\ HandlerGoesOn /\ UNCHANGED reload

\* create_session has thrown: the answer is empty.
FinishUseFails ==
  /\ Working("use")
  /\ thread.job.client \notin Holders /\ idle = <<>> /\ Len(recency) < Capacity
  /\ HandlerGoesOn
  /\ UNCHANGED <<recency, idle, reload>>

FinishReplace ==
  /\ Working("replace")
  /\ reload' = IF reload = "waiting" THEN "done" ELSE reload
  /\ UNCHANGED <<clients, recency, idle>>

FinishOther ==
  /\ \E kind \in {"enable", "release"} : Working(kind)
  /\ UNCHANGED <<clients, recency, idle, reload>>

-----------------------------------------------------------------------------
Inference ==
  \/ TakeCommand \/ TakeTimer \/ TakeRelease \/ TakeEnable \/ TakeReplace
  \/ TakeReplaceFails \/ TakeErase
  \/ FinishReady \/ FinishUse \/ FinishUseFails \/ FinishReplace \/ FinishOther
  \/ Activated \/ NotYet \/ Unavailable \/ Released \/ NotReleased
  \/ Reset \/ Lowering \/ Close \/ Closed
  \/ NoBoost \/ Launch \/ Boosted \/ NotBoosted

Environment ==
  \/ \E c \in Clients : Ready(c) \/ Use(c) \/ Disconnect(c)
  \/ \E on \in BOOLEAN : Enable(on)
  \/ Reload \/ Stop \/ Kill

Processes == \E w \in Workers : Work(w) /\ UNCHANGED service

Next ==
  \/ Inference \/ Environment \/ Processes
  \/ ReloadReturns \/ Exit \/ Tick \/ Expire

Spec == Init /\ [][Next]_vars

\* The threads run, calls into the driver return, and time passes.
Fairness ==
  /\ WF_vars(Inference) /\ WF_vars(ReloadReturns)
  /\ WF_vars(Tick) /\ WF_vars(Expire)
  /\ \A w \in Workers : WF_vars(Work(w) /\ UNCHANGED service)

LiveSpec == Spec /\ Fairness

=============================================================================
