----------------------- MODULE EngineWorkerProperties -----------------------
(***************************************************************************)
(* What is expected of EngineWorker.                                       *)
(***************************************************************************)
EXTENDS EngineWorker, FiniteSets

Modes == {"Chinese", "English"}
Kinds == Coalesced \union {"toggle", "record", "discard"}
Busy  == pump \in {"begin", "send", "io"}

\* The shape of the state.
TypeOK ==
  /\ requests \in Seq(Backend!Request)
  /\ ui \in [mode : Modes, revision : Nat, backend : {"Connected", "Unavailable"}]
  /\ owner \in {"running", "closing", "joining", "gone"}
  /\ untold \subseteq DOMAIN requests
  /\ \A i \in DOMAIN inbox : inbox[i].task \in {"state", "mode", "result", "retry"}
  /\ \A i \in DOMAIN jobs : jobs[i].kind \in Kinds
  /\ pump \in {"starting", "check", "doze", "sleep", "begin", "send", "io", "ended"}
  /\ Busy => job.kind \in Kinds
  /\ pipe \in 0..service.id
  /\ service.mode \in Modes
  /\ memory.through \in 0..memory.wire

\* The places a result of the prediction s can still come from.
IsPrediction(j, s) == j.kind = "predict" /\ j.about = s
Sources(s) ==
  {<<"untold", 0>> : u \in untold \intersect {s}}
    \union {<<"job", 0>> : b \in {TRUE} \intersect {Busy /\ IsPrediction(job, s)}}
    \union {<<"jobs", i>> : i \in {k \in DOMAIN jobs : IsPrediction(jobs[k], s)}}
    \union {<<"inbox", i>> : i \in {k \in DOMAIN inbox :
                                      inbox[k].task = "result" /\ inbox[k].about = s}}

\* A prediction not answered yet is in exactly one place from which its answer
\* will come (the queue, the pump, a task, or submit's list of what it
\* replaced), and an answered one is nowhere: no result is lost or told twice,
\* whatever is replaced, fails or is retried.
AnswerOnItsWay ==
  owner = "running" =>
    \A s \in DOMAIN requests :
      Cardinality(Sources(s)) = IF Backend!Pending(s) THEN 1 ELSE 0

Bookkeeping == TypeOK /\ AnswerOnItsWay

\* EngineWorker is a ConversionBackend: one result for each request, superseded
\* only after a newer one of the same composition.
IsBackend == Backend!Spec

\* Only the commit that was to be discarded is discarded, never the one before
\* or after it, whichever of them could not be sent (EngineWorker::discard_commit).
DiscardsItsOwn == \A d \in discards : d[1] = d[2]

\* Nothing is under way, queued or posted, and the pump sleeps without a timeout.
Quiet ==
  /\ owner = "running" /\ untold = {} /\ inbox = <<>> /\ jobs = <<>>
  /\ pump = "sleep" /\ ~wake

\* "Keep probing while disconnected, even if the user types nothing": the pump
\* never sleeps for good without a connection (EngineWorker::Impl::pump).
KeepsProbing == Quiet => pipe # 0

\* Once everything is quiet, the indicator tells of the connection as it is.
ConnectionShown == Quiet => ui.backend = IF pipe = 0 THEN "Unavailable" ELSE "Connected"

\* Once everything is quiet and the service is there, the text service has the
\* service's mode (it is the only one to toggle it here).
ModeShown == Quiet /\ Alive => ui.mode = service.mode

\* Where the mode is only asked for and toggled, both hold: a service that ended
\* is noticed, one that is back is told of, whatever is retried meanwhile.  (With
\* other requests they need not: see the run silent_reconnect.)
SettlesOnTheService ==
  /\ KeepsProbing
  /\ calls.among \subseteq {"refresh", "toggle"} => ConnectionShown /\ ModeShown

\* A mode read before the user toggled it does not undo the toggle: an answer
\* changes the mode only when no toggle is queued or under way.
Toggling ==
  \/ \E i \in DOMAIN jobs : jobs[i].kind = "toggle"
  \/ Busy /\ job.kind = "toggle"
TogglesStand ==
  [][(inbox # <<>> /\ inbox' = Tail(inbox) /\ Head(inbox).task = "mode" /\ ui'.mode # ui.mode)
       => ~Toggling]_vars

\* If the service answers or ends, every prediction is answered, unless the
\* text service stops (ConversionBackend: "Answers with a ConversionResult").
MaxRequests == CHOOSE n \in {u.left : u \in Uses} : \A u \in Uses : u.left <= n
Unanswered(s) == s \in DOMAIN requests /\ Backend!Pending(s)
RequestsAnswered ==
  WF_vars(Complete) =>
    \A s \in 1..MaxRequests : Unanswered(s) ~> (owner # "running" \/ ~Unanswered(s))

\* Destroying the worker ends, even if the service never answers what was sent
\* to it (PipeEngine::abort; the join in EngineWorker::Impl's destructor).
StopEnds == (owner = "closing") ~> (owner = "gone")
=============================================================================
