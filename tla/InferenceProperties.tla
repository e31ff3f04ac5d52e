------------------------- MODULE InferenceProperties ------------------------
(***************************************************************************)
(* What the inference side of the service has to guarantee.                *)
(***************************************************************************)
EXTENDS InferenceServer

Results == {"none", "success", "retry_later", "unavailable"}

InferenceTypeOK ==
  /\ {up, initialized, accepting} \subseteq BOOLEAN
  /\ mutex \in Workers \union {0} /\ clock \in {"default", "peak"}
  /\ \A w \in Workers :
       /\ processes[w].at \in Running \union {"none", "starting", "ended"}
       /\ {processes[w].reply, processes[w].result} \subseteq Results
       /\ processes[w].left \in 0..Attempts
  /\ clients \in [Clients -> {"gone", "reading", "waiting"}]
  /\ lease.backend \in Workers \union {0} /\ lease.failures \in 0..Failures
  /\ {lease.deadline, lease.timer} \subseteq 0..(IdleTimeout + RetryDelay)
  /\ reload \in {"no", "waiting", "done"}

-----------------------------------------------------------------------------
\* Somebody has to lower the clock; somebody has given up, the exit code 4.
Owed   == \E w \in Workers : processes[w].pending /\ processes[w].at \in Running
GaveUp == \E w \in Workers : processes[w].pending /\ processes[w].at = "ended"

Lease == INSTANCE ClockLease WITH clock <- clock, owed <- Owed, gaveUp <- GaveUp

\* The processes keep the promise of the clock lease, whatever the service and
\* its timeouts do: the clock moves only while one process owes its restoration.
ClockIsLent == Lease!Spec

\* "further boosts suspended, saved state retained until shutdown/replacement"
Suspended == up /\ lease.releasing /\ lease.failures = Failures

\* The duty ends, also when the service ends or stops waiting in between: a
\* raised clock is lowered again, unless the driver has refused it for good.
ClockIsReturned == Owed ~> ~Owed \/ Suspended

\* A raised clock has a process that is bound to lower it, or one that has
\* made all its attempts.
RaisedIsOwed ==
  clock = "peak" =>
    \/ Owed
    \/ \E w \in Workers : processes[w].pending /\ processes[w].left = 0

\* While the inference thread is in no call, a duty to lower the clock is known
\* to the service, as an active lease of that very process, or the process has
\* been told to end.
DutyIsKnown ==
  up /\ thread.at \in {"free", "job"} =>
    \A w \in Workers :
      processes[w].pending /\ processes[w].at \in Running \ {"restoring"} =>
        processes[w].stop \/ (lease.backend = w /\ lease.active)

\* The timer never asks a backend that is not there any more.
TimerHasBackend == thread.at \in {"on", "off"} => thread.w # 0 /\ thread.w = lease.backend

\* What the service, its timer and the processes keep of the lease fits together.
LeaseIsKept == InferenceTypeOK /\ RaisedIsOwed /\ DutyIsKnown /\ TimerHasBackend

-----------------------------------------------------------------------------
\* The contexts belong to the core that is loaded, and there are at most
\* Capacity of them, the idle ones included, whichever way clients come and go
\* while the core is replaced.
ContextsFitCore ==
  /\ Len(recency) + Len(idle) <= Capacity
  /\ \A i \in DOMAIN recency : recency[i].core = core
  /\ \A i \in DOMAIN idle : idle[i] = core

\* A context belongs to one client, and one that is there or whose leave the
\* inference thread still has to see.
ContextsAreClaimed ==
  /\ Cardinality(Holders) = Len(recency)
  /\ accepting => \A c \in Holders :
       clients[c] # "gone" \/ \E i \in DOMAIN jobs : jobs[i].kind = "erase" /\ jobs[i].client = c

\* The contexts are neither lost nor shared, nor left to another core.
ContextsAreTended == ContextsFitCore /\ ContextsAreClaimed

\* A command that waits for the inference thread is answered, and a call of
\* replace_core returns, whatever the driver's process does.
Answers ==
  /\ \A c \in Clients : clients[c] = "waiting" ~> clients[c] # "waiting" \/ ~up \/ ~accepting
  /\ reload # "no" ~> reload = "no" \/ ~up

=============================================================================
